---- MODULE Spec2Model ----
(***************************************************************************)
(* Model of the courier consumer subsystem (trussle/courier):              *)
(*   pkg/fifo/fifo.go          the in-flight FIFO                          *)
(*   pkg/consumer/consumer.go  the Gather/Replicate/Commit/Failure machine *)
(*   remoteQueue               the at-least-once source adapter            *)
(* The dedup store the consumer is written against (Intersection over      *)
(* records, Add over a transaction) is modelled from its contract.         *)
(***************************************************************************)
EXTENDS Integers, Sequences, FiniteSets, TLC

\* ---------------------------------------------------------------- bounds
MaxDeliveries == 3        \* ids handed out by Dequeue over one run
MaxBatch == 2             \* MaxNumberOfMessages of one Dequeue
NumMsgs == 1              \* distinct source messages
MaxTime == 3              \* clock readings 1..MaxTime
StoreSize == 2            \* capacity of the dedup store
ActiveTargetSize == 2     \* Consumer.activeTargetSize
ActiveTargetAge == 1      \* Consumer.activeTargetAge, in clock units
MaxTxnLen == 12          \* entries of a transaction handed to remoteQueue.Commit
NumIdents == 3           \* distinct idents offered to the virtual store
MaxIdents == 3           \* length of a list handed to the virtual store
MaxInserted == 5         \* insertions into the virtual store that are followed
MaxAppends == 3          \* Append calls on the local audit log that are followed
NumStale == 2            \* active files a crashed process may have left under root
NumAppenders == 2        \* appenders sharing one audit root
MaxLockCalls == 3        \* Append calls on the shared root that are followed
MaxVisibility == 4       \* largest visibility timeout configured, in half seconds
MaxReceived == 2         \* messages one ReceiveMessage returns to Dequeue
NumReceivable == 2       \* distinct messages at the source of Dequeue
MaxDequeues == 2         \* Dequeue calls that are followed
NumPayloads == 2         \* distinct payloads handed to Send
NumKeys == 2             \* distinct keys added to the FIFO followed by its arrays
MaxFifoOps == 4          \* calls on that FIFO that are followed
NumConsumers == 4        \* consumers of the process the status API belongs to
MaxEntries == 3          \* entries the FIFO holds when Run is followed call by call
MaxEvictOps == 4         \* calls on the FIFO followed with its eviction callback
MaxFilterOps == 3        \* steps followed of gather's filter against the store
NumRemoteIdents == 2     \* distinct idents known to the remote store and its peers
MaxRemoteIdents == 2     \* length of a list handed to remoteStore.Intersection
NumPeers == 2            \* store instances the peer set reports
ReplicationFactor == 1   \* RemoteConfig.ReplicationFactor
NumRecordIds == 2        \* distinct record ids of a segment handed to intersection
NumSegments == 2         \* segments handed to intersection

defaultFailureRate == 10  \* failures after which the client's breaker opens
StatusOK == 200           \* http.StatusOK
Second == 2               \* time.Second, durations being counted in half seconds
AuditAttempts == 3        \* attempts the retrier of the audit append is given
ChunkDivisor == 9         \* the 9 of remoteQueue.Commit's part arithmetic
BatchLimit == 10          \* entries one DeleteMessageBatch may carry
Nil == 0                  \* a nil entry pointer

Msgs == 1..NumMsgs

VARIABLES
    fifo,               \* FIFO.items: sequence of records [id, mid]
    state,              \* the stateFn Run holds: "gather", "replicate", "failure"
    runPc,              \* position of Run: "select", "step", "exited"
    stopPc,             \* position of Stop: "idle", "sending", "waiting", "returned"
    gatherErrors,       \* Consumer.gatherErrors
    activeSince,        \* Consumer.activeSince, 0 is the zero time
    firstAdd,           \* clock reading of the first add to the batch in the FIFO, 0 if none
    now,                \* wall clock
    store,              \* dedup store: sequence of ids, oldest first
    nextId,             \* next id uuid.New hands out
    delivered,          \* delivered[id] = source message id of delivery id
    consumedSegments, consumedRecords,
    replicatedSegments, replicatedRecords,
    failedSegments, failedRecords,
    \* observation of the collaborators' calls
    \* (the drain, commit and failed observations are those of the current
    \* replicate/failure cycle; a gather step clears them)
    lastStep,           \* what the last handler did
    drainIn,            \* FIFO contents when the drain started
    drainCalls,         \* the calls fn received in the drain: [rec, ok]
    drainOut,           \* the entries the drain returned
    drainErr,           \* whether the drain returned an error
    events,             \* collaborator calls of the commit sub-step, in order
    commitErr,          \* whether the commit sub-step returned an error
    failedTxn,          \* transaction queue.Failed received
    commitCount,        \* commitCount[id] = times id was passed to queue.Commit
    failedCount,        \* failedCount[id] = times id was passed to queue.Failed
    commitFailedIds,    \* ids of batches whose queue.Commit returned an error
    stopPurgePc,        \* runPc at which the stop signal was taken
    inFlightOnExit,     \* FIFO length when purged on stop
    \* remoteQueue.Commit
    qPc,                \* "off", "start", "calls", "done"
    qRecords,           \* ids of the transaction, in the map's iteration order
    qParts,             \* the parts the ids were chunked into
    qIndex,             \* part the loop is at
    qCalls,             \* Entries of every DeleteMessageBatch issued
    qDeleted,           \* ids the source deleted
    qResult,            \* the Result accumulated
    qErr,               \* whether Commit returned an error
    \* virtualStore
    vPc,                \* "off" or "on"
    vKeys,              \* keys of the store's fifo, oldest first
    vInserted,          \* every ident the store inserted, in order
    vOp,                \* the last call: "none", "add", "intersection"
    vIn,                \* the list handed to the last call
    vUnion,             \* the first list Intersection returned
    vDifference,        \* the second list Intersection returned
    \* localLog
    aPc,                \* "off", "new", "failed", "idle" or "writing" (inside Append)
    aFiles,             \* the files under root: [name, ext, txn]
    aClock,             \* the last reading of time.Now()
    aCalls,             \* Append calls made
    aName,              \* file name of the Append in progress
    aBefore,            \* the files under root when the last Append was called
    aResult,            \* what the last Append returned: "none", "ok", "err"
    \* appenders sharing one root
    lPc,                \* per appender: "idle", "locked", "created"
    lLock,              \* the LOCK file: "absent", "empty", "locked" (non-empty)
    lFiles,             \* the segment files under root: [name, ext, by]
    lClock,             \* the last reading of time.Now()
    lName,              \* per appender: name of the file it is writing
    lCalls,             \* Append calls made on the root
    lErr,               \* per appender: whether its last Append returned an error
    \* remoteQueue.Dequeue
    dqTimeout,          \* the configured visibility timeout
    dqCalls,            \* Dequeue calls made
    dqNextId,           \* the next fresh record id
    dqMessages,         \* the messages the last ReceiveMessage returned
    dqRecords,          \* the records the last Dequeue returned
    dqErr,              \* whether the last Dequeue returned an error
    dqVisCalls,         \* the ChangeMessageVisibilityBatch calls of the last Dequeue
    dqVisErr,           \* whether the visibility change of the last Dequeue failed
    \* http Client.Send
    sCircuit,           \* the circuit breaker: "closed", "open", "halfopen"
    sFailures,          \* consecutive failures the breaker has counted
    sCalls,             \* whether Send was called
    sPosted,            \* whether the last Send made the POST
    sBody,              \* the payload the last Send posted, 0 for none
    sTransportErr,      \* whether the POST of the last Send failed
    sStatus,            \* status of the response to the last Send, 0 for none
    sErr,               \* whether the last Send returned an error
    \* FIFO.items as a Go slice over backing arrays
    hMem,               \* the backing arrays allocated, each a sequence of cells
    hItems,             \* FIFO.items: [arr, off, len]
    hContents,          \* what the FIFO holds, by the operations called on it
    hSlice,             \* the slice a caller got from Slice(), arr 0 for none
    hSliceAt,           \* what that slice held when returned, or was set to
    hKeys,              \* the slice a caller got from Keys(), arr 0 for none
    hKeysAt,            \* what that slice held when returned, or was set to
    hOps,               \* calls made
    \* status API
    rConsumers,         \* per consumer: "created", "running" or "stopped"
    rPath,              \* path of the last GET served, "" for none
    rAllRunning,        \* whether every consumer was running when it was served
    rStatus,            \* the status written to it, 0 for none
    \* the Run loop followed call by call, commit as a call of its own
    zPc,                \* where Run is: "select", inside a state function, "exited"
    zState,             \* the state function Run holds
    zLen,               \* entries in the FIFO
    zActive,            \* whether activeSince is set
    zErrors,            \* gatherErrors
    zCommitting,        \* commit calls that have begun and not returned
    zDrained,           \* entries the last drain handed to commit
    zErr,               \* whether the last drain returned an error
    zStop,              \* where Stop is
    \* FIFO with its eviction callback
    ePc,                \* "on" while this FIFO is followed
    eItems,             \* FIFO.items
    eAdded,             \* entries added so far
    eOps,               \* calls made so far
    eOp,                \* the last call
    eBefore,            \* FIFO.items before the last call
    eEvicts,            \* the onEvict calls of the last call, in order
    eErr,               \* whether the last call was a Dequeue that returned an error
    \* gather's filter against the dedup store, over ids that can recur
    xPc,                \* "on" while the filter is followed
    xStore,             \* ids in the dedup store
    xFifo,              \* the FIFO
    xOps,               \* steps taken so far
    xBefore,            \* the FIFO before the last gather
    xRecords,           \* the records the last gather dequeued
    xErr,               \* whether store.Intersection returned an error to it
    \* remote dedup store
    mPc,                \* "on" while the remote store is followed
    mLocal,             \* idents the local store holds
    mPeers,             \* per peer, the idents its store holds
    mCalls,             \* whether Intersection has been called
    mIn,                \* the idents of the last Intersection
    mResponded,         \* the peers whose response was taken into the sum
    mUnion,             \* the idents of the union it returned
    mDifference,        \* the idents of the difference it returned
    mErr,               \* whether it returned an error
    \* stream intersection
    tPc,                \* "on" while the intersection is followed
    tCalls,             \* whether intersection has been called
    tSegments,          \* per segment of the last call, the ids of its records
    tAll,               \* whether its query was the wildcard
    tQuery,             \* per segment, whether the query has it and the ids named
    tUnion,             \* per segment, union[segment] as returned
    tDifference         \* per segment, difference[segment] as returned

queueVars == <<qPc, qRecords, qParts, qIndex, qCalls, qDeleted, qResult, qErr>>

virtualVars == <<vPc, vKeys, vInserted, vOp, vIn, vUnion, vDifference>>

auditVars == <<aPc, aFiles, aClock, aCalls, aName, aBefore, aResult>>

lockVars == <<lPc, lLock, lFiles, lClock, lName, lCalls, lErr>>

dequeueVars == <<dqTimeout, dqCalls, dqNextId, dqMessages, dqRecords, dqErr, dqVisCalls, dqVisErr>>

sendVars == <<sCircuit, sFailures, sCalls, sPosted, sBody, sTransportErr, sStatus, sErr>>

heapVars == <<hMem, hItems, hContents, hSlice, hSliceAt, hKeys, hKeysAt, hOps>>

readyVars == <<rConsumers, rPath, rAllRunning, rStatus>>

serialVars == <<zPc, zState, zLen, zActive, zErrors, zCommitting, zDrained, zErr, zStop>>

evictVars == <<ePc, eItems, eAdded, eOps, eOp, eBefore, eEvicts, eErr>>

filterVars == <<xPc, xStore, xFifo, xOps, xBefore, xRecords, xErr>>

remoteVars == <<mPc, mLocal, mPeers, mCalls, mIn, mResponded, mUnion, mDifference, mErr>>

streamVars == <<tPc, tCalls, tSegments, tAll, tQuery, tUnion, tDifference>>

auxVars == <<queueVars, virtualVars, auditVars, lockVars, dequeueVars, sendVars, heapVars, readyVars, serialVars, evictVars, filterVars, remoteVars, streamVars>>

vars == <<fifo, state, runPc, stopPc, gatherErrors, activeSince, firstAdd, now, store,
          nextId, delivered, consumedSegments, consumedRecords,
          replicatedSegments, replicatedRecords, failedSegments, failedRecords,
          lastStep, drainIn, drainCalls, drainOut, drainErr, events, commitErr,
          failedTxn, commitCount, failedCount, commitFailedIds, stopPurgePc,
          inFlightOnExit, auxVars>>

consumerVars == <<fifo, state, runPc, stopPc, gatherErrors, activeSince, firstAdd,
                  now, store, nextId, delivered, consumedSegments,
                  consumedRecords, replicatedSegments, replicatedRecords,
                  failedSegments, failedRecords, lastStep, drainIn, drainCalls,
                  drainOut, drainErr, events, commitErr, failedTxn, commitCount,
                  failedCount, commitFailedIds, stopPurgePc, inFlightOnExit>>

\* what the steps of one component leave alone
notQueueVars == <<consumerVars, virtualVars, auditVars, lockVars, dequeueVars, sendVars, heapVars, readyVars, serialVars, evictVars, filterVars, remoteVars, streamVars>>
notVirtualVars == <<consumerVars, queueVars, auditVars, lockVars, dequeueVars, sendVars, heapVars, readyVars, serialVars, evictVars, filterVars, remoteVars, streamVars>>
notAuditVars == <<consumerVars, queueVars, virtualVars, lockVars, dequeueVars, sendVars, heapVars, readyVars, serialVars, evictVars, filterVars, remoteVars, streamVars>>
notLockVars == <<consumerVars, queueVars, virtualVars, auditVars, dequeueVars, sendVars, heapVars, readyVars, serialVars, evictVars, filterVars, remoteVars, streamVars>>
notDequeueVars == <<consumerVars, queueVars, virtualVars, auditVars, lockVars, sendVars, heapVars, readyVars, serialVars, evictVars, filterVars, remoteVars, streamVars>>
notSendVars == <<consumerVars, queueVars, virtualVars, auditVars, lockVars, dequeueVars, heapVars, readyVars, serialVars, evictVars, filterVars, remoteVars, streamVars>>
notHeapVars == <<consumerVars, queueVars, virtualVars, auditVars, lockVars, dequeueVars, sendVars, readyVars, serialVars, evictVars, filterVars, remoteVars, streamVars>>
notReadyVars == <<consumerVars, queueVars, virtualVars, auditVars, lockVars, dequeueVars, sendVars, heapVars, serialVars, evictVars, filterVars, remoteVars, streamVars>>
notSerialVars == <<consumerVars, queueVars, virtualVars, auditVars, lockVars, dequeueVars, sendVars, heapVars, readyVars, evictVars, filterVars, remoteVars, streamVars>>
notEvictVars == <<consumerVars, queueVars, virtualVars, auditVars, lockVars, dequeueVars, sendVars, heapVars, readyVars, serialVars, filterVars, remoteVars, streamVars>>
notFilterVars == <<consumerVars, queueVars, virtualVars, auditVars, lockVars, dequeueVars, sendVars, heapVars, readyVars, serialVars, evictVars, remoteVars, streamVars>>
notRemoteVars == <<consumerVars, queueVars, virtualVars, auditVars, lockVars, dequeueVars, sendVars, heapVars, readyVars, serialVars, evictVars, filterVars, streamVars>>
notStreamVars == <<consumerVars, queueVars, virtualVars, auditVars, lockVars, dequeueVars, sendVars, heapVars, readyVars, serialVars, evictVars, filterVars, remoteVars>>

counters == <<consumedSegments, consumedRecords, replicatedSegments,
              replicatedRecords, failedSegments, failedRecords>>

drainObs == <<drainIn, drainCalls, drainOut, drainErr, events, commitErr>>

\* ---------------------------------------------------------------- helpers
Ids(s) == {s[i].id : i \in 1..Len(s)}

\* per-id call counters, indexed by id: bump the count of every id of txn
Bump(count, txn) ==
    [id \in DOMAIN count |->
        count[id] + Cardinality({i \in 1..Len(txn) : txn[i].id = id})]

\* ---------------------------------------------------------------- FIFO
\* FIFO.Add: always appends at the tail.
Add(items, rec) == Append(items, rec)

\* the loop of gather over the records to add: FIFO.Add for each, in order
RECURSIVE AddAll(_, _)
AddAll(items, records) ==
    IF records = <<>> THEN items
    ELSE AddAll(Add(items, Head(records)), Tail(records))

\* Slice that misses the head entry
Slice_SkipHead(items) == IF items = <<>> THEN items ELSE Tail(items)

\* FIFO.Slice: snapshot of the entries.
Slice(items) == items

\* Purge that keeps the head entry
Purge_KeepHead(items) == IF items = <<>> THEN items ELSE <<Head(items)>>

\* Purge that keeps the last entry
Purge_KeepLast(items) == IF items = <<>> THEN items ELSE <<items[Len(items)]>>

\* FIFO.Purge: removes every entry.
Purge(items) == <<>>

\* FIFO.Dequeue, the loop from position k on: fn(v) fails iff fails[k].
RECURSIVE DequeueFrom(_, _, _, _, _)
DequeueFrom(items, fails, k, dequeued, calls) ==
    IF k > Len(items)
    THEN [dequeued |-> dequeued, err |-> FALSE, items |-> <<>>, calls |-> calls]
    ELSE IF fails[k]
         THEN [dequeued |-> dequeued, err |-> TRUE,
               items |-> SubSeq(items, k, Len(items)),
               calls |-> Append(calls, [rec |-> items[k], ok |-> FALSE])]
         ELSE DequeueFrom(items, fails, k + 1, Append(dequeued, items[k]),
                          Append(calls, [rec |-> items[k], ok |-> TRUE]))

\* Dequeue that also drops the entry fn failed on
Dequeue_DropFailing(items, fails) ==
    LET r == DequeueFrom(items, fails, 1, <<>>, <<>>)
    IN IF r.err THEN [r EXCEPT !.items = Tail(@)] ELSE r

\* Dequeue that appends the entry to the result before calling fn
Dequeue_AppendBeforeFn(items, fails) ==
    LET r == DequeueFrom(items, fails, 1, <<>>, <<>>)
    IN IF r.err THEN [r EXCEPT !.dequeued = Append(@, Head(r.items))] ELSE r

\* Dequeue that leaves the items untouched when fn fails
Dequeue_NoTrim(items, fails) ==
    LET r == DequeueFrom(items, fails, 1, <<>>, <<>>)
    IN IF r.err THEN [r EXCEPT !.items = items] ELSE r

Dequeue(items, fails) == DequeueFrom(items, fails, 1, <<>>, <<>>)

\* ---------------------------------------------------------------- dedup store
StoreContains(st, id) == \E i \in 1..Len(st) : st[i] = id

\* add one id, evicting the oldest when the capacity is exceeded
StoreAddOne(st, id) ==
    IF StoreContains(st, id) THEN st
    ELSE LET grown == Append(st, id)
         IN IF Len(grown) > StoreSize THEN Tail(grown) ELSE grown

RECURSIVE StoreAdd(_, _)
StoreAdd(st, txn) ==
    IF txn = <<>> THEN st
    ELSE StoreAdd(StoreAddOne(st, Head(txn).id), Tail(txn))

\* the records of the input whose id is not in the store, in input order
StoreDifference(st, records) ==
    SelectSeq(records, LAMBDA r : ~StoreContains(st, r.id))

\* ---------------------------------------------------------------- queue adapter
\* Dequeue that takes the id of a record from the message it carries
NewRecords_IdOfMessage(batch, first) ==
    [k \in 1..Len(batch) |-> [id |-> batch[k], mid |-> batch[k]]]

\* remoteQueue.Dequeue: every received message gets a fresh id.
NewRecords(batch, first) ==
    [k \in 1..Len(batch) |-> [id |-> first + k - 1, mid |-> batch[k]]]

\* the batches one ReceiveMessage can return: 1..MaxBatch messages; the source
\* is at-least-once, so a message may be received again, also within a batch
Batches == UNION {[1..n -> Msgs] : n \in 1..MaxBatch}

\* ---------------------------------------------------------------- Init
ConsumerInit ==
    /\ fifo = <<>>
    /\ state = "gather"
    /\ runPc = "select"
    /\ stopPc = "idle"
    /\ gatherErrors = 0
    /\ activeSince = 0
    /\ firstAdd = 0
    /\ now = 1
    /\ store = <<>>
    /\ nextId = 1
    /\ delivered = <<>>
    /\ consumedSegments = 0 /\ consumedRecords = 0
    /\ replicatedSegments = 0 /\ replicatedRecords = 0
    /\ failedSegments = 0 /\ failedRecords = 0
    /\ lastStep = "init"
    /\ drainIn = <<>> /\ drainCalls = <<>> /\ drainOut = <<>>
    /\ drainErr = FALSE
    /\ events = <<>>
    /\ commitErr = FALSE
    /\ failedTxn = <<>>
    /\ commitCount = [id \in 1..MaxDeliveries |-> 0]
    /\ failedCount = [id \in 1..MaxDeliveries |-> 0]
    /\ commitFailedIds = {}
    /\ stopPurgePc = "none"
    /\ inFlightOnExit = 0

\* no remoteQueue.Commit call is being followed
QueueOff ==
    /\ qPc = "off"
    /\ qRecords = <<>> /\ qParts = <<>> /\ qIndex = 0 /\ qCalls = <<>>
    /\ qDeleted = {}
    /\ qResult = [Success |-> 0, Failure |-> 0]
    /\ qErr = FALSE

\* no virtual store is being followed
VirtualOff ==
    /\ vPc = "off"
    /\ vKeys = <<>> /\ vInserted = <<>>
    /\ vOp = "none" /\ vIn = <<>> /\ vUnion = <<>> /\ vDifference = <<>>

\* no local audit log is being followed
AuditOff ==
    /\ aPc = "off"
    /\ aFiles = {} /\ aClock = 0 /\ aCalls = 0 /\ aName = 0
    /\ aBefore = {} /\ aResult = "none"

\* no concurrent appenders are being followed
LockOff ==
    /\ lPc = <<>> /\ lLock = "absent" /\ lFiles = {} /\ lClock = 0
    /\ lName = <<>> /\ lCalls = 0 /\ lErr = <<>>

\* no remoteQueue.Dequeue call is being followed
DequeueOff ==
    /\ dqTimeout = 0 /\ dqCalls = 0 /\ dqNextId = 0
    /\ dqMessages = <<>> /\ dqRecords = <<>> /\ dqErr = FALSE
    /\ dqVisCalls = <<>> /\ dqVisErr = FALSE

\* no http client is being followed
SendOff ==
    /\ sCircuit = "off" /\ sFailures = 0 /\ sCalls = FALSE /\ sPosted = FALSE
    /\ sBody = 0
    /\ sTransportErr = FALSE /\ sStatus = 0 /\ sErr = FALSE

\* no FIFO is being followed at the level of its backing arrays
HeapOff ==
    /\ hMem = <<>> /\ hItems = [arr |-> 0, off |-> 0, len |-> 0]
    /\ hContents = <<>>
    /\ hSlice = [arr |-> 0, off |-> 0, len |-> 0] /\ hSliceAt = <<>>
    /\ hKeys = [arr |-> 0, off |-> 0, len |-> 0] /\ hKeysAt = <<>>
    /\ hOps = 0

\* no status API is being followed
ReadyOff ==
    /\ rConsumers = <<>> /\ rPath = "" /\ rAllRunning = FALSE /\ rStatus = 0

\* no Run loop is being followed call by call
SerialOff ==
    /\ zPc = "off" /\ zState = "none" /\ zLen = 0 /\ zActive = FALSE
    /\ zErrors = 0 /\ zCommitting = 0 /\ zDrained = 0 /\ zErr = FALSE
    /\ zStop = "off"

\* no FIFO is being followed with its eviction callback
EvictOff ==
    /\ ePc = "off" /\ eItems = <<>> /\ eAdded = 0 /\ eOps = 0 /\ eOp = "none"
    /\ eBefore = <<>> /\ eEvicts = <<>> /\ eErr = FALSE

\* no filter against the dedup store is being followed
FilterOff ==
    /\ xPc = "off" /\ xStore = <<>> /\ xFifo = <<>> /\ xOps = 0
    /\ xBefore = <<>> /\ xRecords = <<>> /\ xErr = FALSE

\* no remote store is being followed
RemoteOff ==
    /\ mPc = "off" /\ mLocal = {} /\ mPeers = <<>> /\ mCalls = FALSE
    /\ mIn = <<>> /\ mResponded = {} /\ mUnion = {} /\ mDifference = {}
    /\ mErr = FALSE

\* no stream intersection is being followed
StreamOff ==
    /\ tPc = "off" /\ tCalls = FALSE /\ tSegments = <<>> /\ tAll = FALSE
    /\ tQuery = <<>> /\ tUnion = <<>> /\ tDifference = <<>>

Init == ConsumerInit /\ QueueOff /\ VirtualOff /\ AuditOff /\ LockOff /\ DequeueOff /\ SendOff /\ HeapOff /\ ReadyOff /\ SerialOff /\ EvictOff /\ FilterOff /\ RemoteOff /\ StreamOff

\* ---------------------------------------------------------------- commit
\* commit that writes the dedup store before acknowledging to the queue
commit_StoreFirst(values, appendFails, commitFails, storeFails, st) ==
    LET txn == values
        tried == <<[op |-> "append", txn |-> txn, ok |-> ~appendFails],
                   [op |-> "storeAdd", txn |-> txn, ok |-> ~storeFails]>>
    IN IF storeFails
       THEN [err |-> TRUE, store |-> st, events |-> tried, committed |-> FALSE]
       ELSE [err |-> commitFails, store |-> StoreAdd(st, txn),
             committed |-> ~commitFails,
             events |-> Append(tried, [op |-> "commit", txn |-> txn, ok |-> ~commitFails])]

\* commit that goes on to store.Add after queue.Commit returned an error
commit_IgnoreCommitErr(values, appendFails, commitFails, storeFails, st) ==
    LET txn == values
        tried == <<[op |-> "append", txn |-> txn, ok |-> ~appendFails],
                   [op |-> "commit", txn |-> txn, ok |-> ~commitFails],
                   [op |-> "storeAdd", txn |-> txn, ok |-> ~storeFails]>>
    IN [err |-> commitFails \/ storeFails,
        store |-> IF storeFails THEN st ELSE StoreAdd(st, txn),
        committed |-> ~commitFails, events |-> tried]

\* commit that returns the audit log's error instead of going on
commit_AppendFatal(values, appendFails, commitFails, storeFails, st) ==
    LET txn == values
        tried == <<[op |-> "append", txn |-> txn, ok |-> ~appendFails]>>
        went == Append(tried, [op |-> "commit", txn |-> txn, ok |-> ~commitFails])
    IN IF appendFails
       THEN [err |-> TRUE, store |-> st, events |-> tried, committed |-> FALSE]
       ELSE IF commitFails
            THEN [err |-> TRUE, store |-> st, events |-> went, committed |-> FALSE]
            ELSE IF storeFails
                 THEN [err |-> TRUE, store |-> st, committed |-> TRUE,
                       events |-> Append(went, [op |-> "storeAdd", txn |-> txn, ok |-> FALSE])]
                 ELSE [err |-> FALSE, store |-> StoreAdd(st, txn), committed |-> TRUE,
                       events |-> Append(went, [op |-> "storeAdd", txn |-> txn, ok |-> TRUE])]

\* Consumer.commit: build the transaction, append to the audit log (errors
\* logged only), queue.Commit, then store.Add, then Flush.
commit(values, appendFails, commitFails, storeFails, st) ==
    LET txn == values
        tried == <<[op |-> "append", txn |-> txn, ok |-> ~appendFails],
                   [op |-> "commit", txn |-> txn, ok |-> ~commitFails]>>
    IN IF commitFails
       THEN [err |-> TRUE, store |-> st, events |-> tried, committed |-> FALSE]
       ELSE IF storeFails
            THEN [err |-> TRUE, store |-> st, committed |-> TRUE,
                  events |-> Append(tried, [op |-> "storeAdd", txn |-> txn, ok |-> FALSE])]
            ELSE [err |-> FALSE, store |-> StoreAdd(st, txn), committed |-> TRUE,
                  events |-> Append(tried, [op |-> "storeAdd", txn |-> txn, ok |-> TRUE])]

\* ---------------------------------------------------------------- Run loop
\* Run, case <-step.C: the ticker fires and the held state function is called.
Tick ==
    /\ runPc = "select"
    /\ UNCHANGED auxVars
    /\ runPc' = "step"
    /\ UNCHANGED <<firstAdd, fifo, state, stopPc, gatherErrors, activeSince, now, store,
                   nextId, delivered, counters, lastStep, drainObs, failedTxn,
                   commitCount, failedCount, commitFailedIds, stopPurgePc,
                   inFlightOnExit>>

\* a handler that drains nothing and calls neither commit nor queue.Failed
NoCalls ==
    /\ drainIn' = <<>> /\ drainCalls' = <<>> /\ drainOut' = <<>>
    /\ drainErr' = FALSE
    /\ events' = <<>>
    /\ commitErr' = FALSE
    /\ failedTxn' = <<>>

\* filter that adds nothing when the store returns an error
gatherDifference_FailClosed(st, records, storeFails) ==
    IF storeFails THEN <<>> ELSE StoreDifference(st, records)

\* Consumer.gather, the records it goes on to add: the difference the store
\* reports, or every record when store.Intersection returned an error
gatherDifference(st, records, storeFails) ==
    IF storeFails THEN records ELSE StoreDifference(st, records)

\* break-out that stays in gather while entries wait in the FIFO
breakOut_StayInGather(errors, len) ==
    IF len = 0
    THEN [gatherErrors |-> 0, state |-> "gather", step |-> "gather_reset"]
    ELSE [gatherErrors |-> errors, state |-> "gather", step |-> "gather_flush"]

\* Consumer.gather, the break-out taken when gatherErrors > 0: with an empty
\* FIFO reset the count and gather again, otherwise press on to replicate
breakOut(errors, len) ==
    IF len = 0
    THEN [gatherErrors |-> 0, state |-> "gather", step |-> "gather_reset"]
    ELSE [gatherErrors |-> errors, state |-> "replicate", step |-> "gather_flush"]

\* Consumer.gather
gather ==
    /\ runPc = "step" /\ state = "gather"
    /\ UNCHANGED auxVars
    /\ runPc' = "select"
    /\ UNCHANGED <<stopPc, now, store, replicatedSegments, replicatedRecords,
                   failedSegments, failedRecords,
                   commitCount, failedCount, commitFailedIds, stopPurgePc,
                   inFlightOnExit>>
    /\ NoCalls
    /\ IF gatherErrors > 0
       THEN /\ LET out == breakOut(gatherErrors, Len(fifo))
               IN /\ gatherErrors' = out.gatherErrors
                  /\ state' = out.state
                  /\ lastStep' = out.step
            /\ UNCHANGED <<fifo, activeSince, firstAdd, nextId, delivered,
                           consumedSegments, consumedRecords>>
       ELSE LET tooBig == Len(fifo) > ActiveTargetSize
                tooOld == activeSince # 0 /\ now - activeSince > ActiveTargetAge
            IN IF tooBig \/ tooOld
               THEN /\ state' = "replicate"
                    /\ lastStep' = "gather_cut"
                    /\ UNCHANGED <<fifo, gatherErrors, activeSince, firstAdd,
                                   nextId, delivered, consumedSegments,
                                   consumedRecords>>
               ELSE \/ \* queue.Dequeue returns an error
                       /\ gatherErrors' = gatherErrors + 1
                       /\ state' = "gather"
                       /\ lastStep' = "gather_error"
                       /\ UNCHANGED <<fifo, activeSince, firstAdd, nextId,
                                      delivered, consumedSegments, consumedRecords>>
                    \/ \* queue.Dequeue returns no records
                       /\ state' = "gather"
                       /\ lastStep' = "gather_empty"
                       /\ UNCHANGED <<fifo, gatherErrors, activeSince, firstAdd,
                                      nextId, delivered, consumedSegments,
                                      consumedRecords>>
                    \/ \* queue.Dequeue returns a batch
                       \E batch \in Batches, storeFails \in BOOLEAN :
                          /\ nextId + Len(batch) - 1 <= MaxDeliveries
                          /\ LET records == NewRecords(batch, nextId)
                                 difference == gatherDifference(store, records, storeFails)
                             IN /\ fifo' = AddAll(fifo, difference)
                                /\ firstAdd' = IF Len(fifo) = 0 /\ Len(difference) > 0
                                               THEN now ELSE firstAdd
                                /\ delivered' = delivered \o batch
                                /\ nextId' = nextId + Len(batch)
                          /\ activeSince' = now
                          /\ consumedSegments' = consumedSegments + 1
                          /\ consumedRecords' = consumedRecords + 1
                          /\ gatherErrors' = gatherErrors
                          /\ state' = "gather"
                          /\ lastStep' = "gather_add"

\* Consumer.replicate
replicate ==
    /\ runPc = "step" /\ state = "replicate"
    /\ UNCHANGED auxVars
    /\ runPc' = "select"
    /\ UNCHANGED <<stopPc, gatherErrors, activeSince, now, nextId, delivered,
                   consumedSegments, consumedRecords, failedSegments,
                   failedRecords, failedTxn, failedCount, stopPurgePc,
                   inFlightOnExit>>
    /\ IF Len(fifo) = 0
       THEN /\ state' = "gather"
            /\ lastStep' = "replicate_empty"
            /\ UNCHANGED <<fifo, firstAdd, store, replicatedSegments,
                           replicatedRecords, drainObs, commitCount,
                           commitFailedIds>>
       ELSE \E fails \in [1..Len(fifo) -> BOOLEAN],
               appendFails, commitFails, storeFails \in BOOLEAN :
            LET d == Dequeue(fifo, fails)
                c == commit(d.dequeued, appendFails, commitFails, storeFails, store)
            IN /\ fifo' = d.items
               /\ firstAdd' = IF d.items = <<>> THEN 0 ELSE firstAdd
               /\ store' = c.store
               /\ drainIn' = fifo
               /\ drainCalls' = d.calls
               /\ drainOut' = d.dequeued
               /\ drainErr' = d.err
               /\ events' = c.events
               /\ commitErr' = c.err
               /\ commitCount' = Bump(commitCount, d.dequeued)
               /\ commitFailedIds' = IF c.committed THEN commitFailedIds
                                     ELSE commitFailedIds \cup Ids(d.dequeued)
               /\ lastStep' = "replicate"
               /\ IF d.err
                  THEN /\ state' = "failure"
                       /\ UNCHANGED <<replicatedSegments, replicatedRecords>>
                  ELSE /\ state' = "gather"
                       /\ replicatedSegments' = replicatedSegments + 1
                       /\ replicatedRecords' = replicatedRecords + Len(d.dequeued)

\* Consumer.failure
failure ==
    /\ runPc = "step" /\ state = "failure"
    /\ UNCHANGED auxVars
    /\ runPc' = "select"
    /\ \E failedFails \in BOOLEAN :
         LET txn == Slice(fifo)
         IN /\ failedTxn' = txn
            /\ failedCount' = Bump(failedCount, txn)
            /\ IF failedFails
               THEN UNCHANGED <<failedSegments, failedRecords>>
               ELSE /\ failedSegments' = failedSegments + 1
                    /\ failedRecords' = failedRecords + Len(txn)
            /\ lastStep' = IF failedFails THEN "failure_error" ELSE "failure"
    /\ fifo' = Purge(fifo)
    /\ firstAdd' = 0
    /\ state' = "gather"
    /\ UNCHANGED <<stopPc, gatherErrors, activeSince, now, store, nextId,
                   delivered, consumedSegments, consumedRecords,
                   replicatedSegments, replicatedRecords, drainObs,
                   commitCount, commitFailedIds, stopPurgePc, inFlightOnExit>>

\* Consumer.Stop: c.stop <- q blocks until Run receives it.
StopCall ==
    /\ stopPc = "idle"
    /\ UNCHANGED auxVars
    /\ stopPc' = "sending"
    /\ UNCHANGED <<firstAdd, fifo, state, runPc, gatherErrors, activeSince, now, store,
                   nextId, delivered, counters, lastStep, drainObs, failedTxn,
                   commitCount, failedCount, commitFailedIds, stopPurgePc,
                   inFlightOnExit>>

\* Run, case q := <-c.stop: purge the FIFO, close(q), return.
StopCase ==
    /\ runPc = "select"
    /\ UNCHANGED auxVars
    /\ stopPc = "sending"
    /\ stopPurgePc' = runPc
    /\ inFlightOnExit' = Len(fifo)
    /\ fifo' = Purge(fifo)
    /\ firstAdd' = 0
    /\ runPc' = "exited"
    /\ stopPc' = "waiting"
    /\ lastStep' = "stop"
    /\ UNCHANGED <<state, gatherErrors, activeSince, now, store, nextId,
                   delivered, counters, drainObs, failedTxn, commitCount,
                   failedCount, commitFailedIds>>

\* Consumer.Stop: <-q returns once Run closed q.
StopReturn ==
    /\ stopPc = "waiting"
    /\ UNCHANGED auxVars
    /\ runPc = "exited"
    /\ stopPc' = "returned"
    /\ UNCHANGED <<firstAdd, fifo, state, runPc, gatherErrors, activeSince, now, store,
                   nextId, delivered, counters, lastStep, drainObs, failedTxn,
                   commitCount, failedCount, commitFailedIds, stopPurgePc,
                   inFlightOnExit>>

\* the wall clock advances
Advance ==
    /\ now < MaxTime
    /\ UNCHANGED auxVars
    /\ now' = now + 1
    /\ UNCHANGED <<firstAdd, fifo, state, runPc, stopPc, gatherErrors, activeSince, store,
                   nextId, delivered, counters, lastStep, drainObs, failedTxn,
                   commitCount, failedCount, commitFailedIds, stopPurgePc,
                   inFlightOnExit>>

Next ==
    \/ Tick
    \/ gather
    \/ replicate
    \/ failure
    \/ StopCall
    \/ StopCase
    \/ StopReturn
    \/ Advance

Spec == Init /\ [][Next]_vars

\* the steps of gather that reach its queue.Dequeue call
DequeueSteps == {"gather_error", "gather_empty", "gather_add"}

\* gather runs through to its queue.Dequeue call
GatherDequeues == gather /\ lastStep' \in DequeueSteps

\* Run's ticker fires every 10ms for as long as Run has not returned, and
\* every tick received calls the state function held
Fairness ==
    /\ WF_vars(Tick)
    /\ WF_vars(gather)
    /\ WF_vars(replicate)
    /\ WF_vars(failure)

SpecLive == Init /\ [][Next]_vars /\ Fairness

\* ---------------------------------------------------------------------
\* remoteQueue.Commit: deleting a transaction's messages at the source

\* parts = make([][]keyValue, int((float64(len(records))/9)+0.9))
NumParts(n) == (10 * n + 9 * ChunkDivisor) \div (10 * ChunkDivisor)

\* the part the k-th iterated record (k from 0) is appended to: index is
\* updated from i before i is incremented
PartIndex(k) == IF k = 0 THEN 0 ELSE (k - 1) \div ChunkDivisor

\* the parts the records are chunked into, in iteration order
Chunk(records) ==
    LET n == Len(records)
        ks(p) == {k \in 0..(n - 1) : PartIndex(k) = p - 1}
        lo(p) == CHOOSE k \in ks(p) : \A j \in ks(p) : k <= j
    IN  [p \in 1..NumParts(n) |->
            IF ks(p) = {} THEN <<>>
            ELSE SubSeq(records, lo(p) + 1, lo(p) + Cardinality(ks(p)))]

\* entities := make([]*sqs.DeleteMessageBatchRequestEntry, len(records)),
\* filled from the part
Entities(part, n) == [i \in 1..n |-> IF i <= Len(part) THEN part[i] ELSE Nil]

\* the ids a slice of entries names
EntryIds(entries) == {entries[i] : i \in 1..Len(entries)} \ {Nil}

\* the orders a range over the records map is modelled to take
MapOrders(n) == {[i \in 1..n |-> i], [i \in 1..n |-> n + 1 - i]}

\* the responses DeleteMessageBatch is modelled to give for a set of ids: the
\* ids it failed to delete (none, one of them, all of them)
FailedSets(ids) == {{}, ids} \cup {{id} : id \in ids}

\* a transaction of n records is handed to Commit
QueueInit ==
    /\ qPc = "start"
    /\ \E n \in 0..MaxTxnLen : qRecords \in MapOrders(n)
    /\ qParts = <<>> /\ qIndex = 0 /\ qCalls = <<>>
    /\ qDeleted = {}
    /\ qResult = [Success |-> 0, Failure |-> 0]
    /\ qErr = FALSE

\* Commit walks the transaction into the records map and chunks it
QCommit ==
    /\ qPc = "start"
    /\ UNCHANGED notQueueVars
    /\ qParts' = Chunk(qRecords)
    /\ qIndex' = 1
    /\ qPc' = IF NumParts(Len(qRecords)) = 0 THEN "done" ELSE "calls"
    /\ UNCHANGED <<qRecords, qCalls, qDeleted, qResult, qErr>>

\* one iteration of the loop over the parts: a DeleteMessageBatch call
QDeleteBatch ==
    /\ qPc = "calls"
    /\ UNCHANGED notQueueVars
    /\ LET entities == Entities(qParts[qIndex], Len(qRecords))
           ids == EntryIds(entities)
       IN  /\ qCalls' = Append(qCalls, entities)
           /\ \/ \* the call fails: return Result{}, err
                 /\ qErr' = TRUE
                 /\ qResult' = [Success |-> 0, Failure |-> 0]
                 /\ qPc' = "done"
                 /\ UNCHANGED <<qDeleted, qIndex>>
              \/ \* the call answers, entry by entry
                 \E failed \in FailedSets(ids) :
                    /\ qDeleted' = qDeleted \cup (ids \ failed)
                    /\ qResult' = [Success |-> qResult.Success + Cardinality(ids \ failed),
                                   Failure |-> qResult.Failure + Cardinality(failed)]
                    /\ qIndex' = qIndex + 1
                    /\ qPc' = IF qIndex = Len(qParts) THEN "done" ELSE "calls"
                    /\ UNCHANGED qErr
    /\ UNCHANGED <<qRecords, qParts>>

QueueNext ==
    \/ QCommit
    \/ QDeleteBatch

InitQueue == ConsumerInit /\ QueueInit /\ VirtualOff /\ AuditOff /\ LockOff /\ DequeueOff /\ SendOff /\ HeapOff /\ ReadyOff /\ SerialOff /\ EvictOff /\ FilterOff /\ RemoteOff /\ StreamOff

SpecQueue == InitQueue /\ [][QueueNext]_vars

\* ---------------------------------------------------------------------
\* virtualStore: the in-memory dedup store over a bounded fifo of idents

Idents == 1..NumIdents

\* the lists of idents handed to the store, repeated idents included
IdentLists == UNION {[1..n -> Idents] : n \in 1..MaxIdents}

\* mutant: a full fifo keeps growing
FifoAdd_NoEvict(keys, key) == Append(keys, key)

\* mutant: a full fifo drops the key before the new one
FifoAdd_EvictNewest(keys, key) ==
    IF Len(keys) + 1 > StoreSize
    THEN Append(SubSeq(keys, 1, Len(keys) - 1), key)
    ELSE Append(keys, key)

\* fifo.Add: append the key; past the size, evict the oldest key
FifoAdd(keys, key) ==
    LET grown == Append(keys, key)
    IN IF Len(grown) > StoreSize THEN Tail(grown) ELSE grown

\* virtualStore.Add: each ident not contained is added to the fifo; the result
\* carries the keys and the log of the insertions made
RECURSIVE VirtualAdd(_, _, _)
VirtualAdd(keys, inserted, idents) ==
    IF idents = <<>> THEN [keys |-> keys, inserted |-> inserted]
    ELSE IF ~StoreContains(keys, Head(idents))
         THEN VirtualAdd(FifoAdd(keys, Head(idents)),
                         Append(inserted, Head(idents)), Tail(idents))
         ELSE VirtualAdd(keys, inserted, Tail(idents))

\* the idents a list names
IdentSet(a) == {a[i] : i \in 1..Len(a)}

\* mutant: unique returns its input
unique_KeepRepeats(a) == {a}

\* unique: the distinct idents of the list, in the order a range over the map
\* yields them, which is any order
unique(a) ==
    LET ids == IdentSet(a)
    IN {f \in [1..Cardinality(ids) -> ids] :
            \A i, j \in 1..Cardinality(ids) : i # j => f[i] # f[j]}

\* a store of size StoreSize is constructed
VirtualInit ==
    /\ vPc = "on"
    /\ vKeys = <<>> /\ vInserted = <<>>
    /\ vOp = "none" /\ vIn = <<>> /\ vUnion = <<>> /\ vDifference = <<>>

VAdd ==
    /\ vPc = "on"
    /\ UNCHANGED notVirtualVars
    /\ \E idents \in IdentLists :
         LET r == VirtualAdd(vKeys, vInserted, idents)
         IN  /\ Len(r.inserted) <= MaxInserted
             /\ vKeys' = r.keys
             /\ vInserted' = r.inserted
             /\ vIn' = idents
    /\ vOp' = "add"
    /\ vUnion' = <<>> /\ vDifference' = <<>>
    /\ UNCHANGED vPc

VIntersection ==
    /\ vPc = "on"
    /\ UNCHANGED notVirtualVars
    /\ \E idents \in IdentLists :
         \E u \in unique(idents) :
            /\ vIn' = idents
            /\ vUnion' = SelectSeq(u, LAMBDA ident : StoreContains(vKeys, ident))
            /\ vDifference' = SelectSeq(u, LAMBDA ident : ~StoreContains(vKeys, ident))
    /\ vOp' = "intersection"
    /\ UNCHANGED <<vPc, vKeys, vInserted>>

VirtualNext ==
    \/ VAdd
    \/ VIntersection

InitVirtual == ConsumerInit /\ QueueOff /\ VirtualInit /\ AuditOff /\ LockOff /\ DequeueOff /\ SendOff /\ HeapOff /\ ReadyOff /\ SerialOff /\ EvictOff /\ FilterOff /\ RemoteOff /\ StreamOff

SpecVirtual == InitVirtual /\ [][VirtualNext]_vars

\* ---------------------------------------------------------------------
\* localLog: the audit log writing one file per transaction under root

Active == ".active"
Flushed == ".flushed"

\* the files under root with the extension
WithExt(files, ext) == {f \in files : f.ext = ext}

\* the names of a set of files
Names(files) == {f.name : f \in files}

\* fsys.Create: the file is created, or truncated when it exists
Create(files, name, ext, txn) ==
    {f \in files : ~(f.name = name /\ f.ext = ext)}
        \cup {[name |-> name, ext |-> ext, txn |-> txn]}

\* fsys.Rename of the active file to modifyExtension(oldname, ".flushed"): the
\* file takes the new name, replacing a file of that name
Rename(files, name, txn) ==
    {f \in files : f.name # name}
        \cup {[name |-> name, ext |-> Flushed, txn |-> txn]}

\* newLocalLog: the root is created and empty, no Append was made
AuditInit ==
    /\ aPc = "idle"
    /\ aFiles = {} /\ aClock = 0 /\ aCalls = 0 /\ aName = 0
    /\ aBefore = {} /\ aResult = "none"

\* Append up to the creation of the active file: the lock is taken, the name is
\* formed from time.Now(), which need not differ from the last reading, and
\* the file is created
AppendCreate ==
    /\ aPc = "idle"
    /\ aCalls < MaxAppends
    /\ UNCHANGED notAuditVars
    /\ aCalls' = aCalls + 1
    /\ aBefore' = aFiles
    /\ \/ \* fsys.Lock fails
          /\ aResult' = "err"
          /\ UNCHANGED <<aPc, aFiles, aClock, aName>>
       \/ \E timestamp \in {t \in {aClock, aClock + 1} : t > 0} :
             /\ aClock' = timestamp
             /\ \/ \* fsys.Create fails
                   /\ aResult' = "err"
                   /\ UNCHANGED <<aPc, aFiles, aName>>
                \/ /\ aFiles' = Create(aFiles, timestamp, Active, aCalls + 1)
                   /\ aName' = timestamp
                   /\ aPc' = "writing"
                   /\ aResult' = "none"

\* the rest of Append: the rows are written, the file is synced and renamed;
\* an error of any of the three is returned as it is
AppendFlush ==
    /\ aPc = "writing"
    /\ UNCHANGED notAuditVars
    /\ aPc' = "idle"
    /\ \E outcome \in {"write", "sync", "rename", "ok"} :
         IF outcome = "ok"
         THEN /\ aFiles' = Rename(aFiles, aName, aCalls)
              /\ aResult' = "ok"
         ELSE /\ aResult' = "err"
              /\ UNCHANGED aFiles
    /\ UNCHANGED <<aClock, aCalls, aName, aBefore>>

AuditNext ==
    \/ AppendCreate
    \/ AppendFlush

InitAudit == ConsumerInit /\ QueueOff /\ VirtualOff /\ AuditInit /\ LockOff /\ DequeueOff /\ SendOff /\ HeapOff /\ ReadyOff /\ SerialOff /\ EvictOff /\ FilterOff /\ RemoteOff /\ StreamOff

SpecAudit == InitAudit /\ [][AuditNext]_vars

\* ---------------------------------------------------------------------
\* localLog started over a root a crashed process left behind

Failed == ".failed"

\* the active files a crashed process may have left: their names are readings
\* of the clock before this process started
StaleFiles == {[name |-> 0 - k, ext |-> Active, txn |-> 0] : k \in 1..NumStale}

\* the orders in which Walk can hand over the active files' names
WalkOrders(files) ==
    LET names == Names(WithExt(files, Active))
    IN {f \in [1..Cardinality(names) -> names] :
            \A i, j \in 1..Cardinality(names) : i # j => f[i] # f[j]}

\* recoverSegments: every active file found by the walk is renamed to .failed,
\* in the order found; the first Rename that fails (failAt, 0 for none) ends
\* the sweep with its error
recoverSegments(files, toRename, failAt) ==
    LET done == IF failAt = 0 THEN Len(toRename) ELSE failAt - 1
        renamed == {toRename[i] : i \in 1..done}
    IN [files |-> {f \in files : ~(f.name \in renamed)}
                     \cup {[name |-> n, ext |-> Failed, txn |-> 0] : n \in renamed},
        err |-> failAt # 0]

\* a process starts over a root with any of the stale files in it
RecoverInit ==
    /\ aPc = "new"
    /\ aFiles \in SUBSET StaleFiles
    /\ aClock = 0 /\ aCalls = 0 /\ aName = 0
    /\ aBefore = {} /\ aResult = "none"

\* newLocalLog: MkdirAll, take and release the lock, return the log
NewLocalLog ==
    /\ aPc = "new"
    /\ UNCHANGED notAuditVars
    /\ \/ \* MkdirAll or Lock fails
          /\ aPc' = "failed"
          /\ aResult' = "err"
       \/ /\ aPc' = "idle"
          /\ aResult' = "none"
    /\ UNCHANGED <<aFiles, aClock, aCalls, aName, aBefore>>

\* recoverSegments called on the root, as the package's test calls it
RecoverSegments ==
    /\ aPc = "new"
    /\ aResult = "none"
    /\ UNCHANGED notAuditVars
    /\ \E toRename \in WalkOrders(aFiles) :
         \E failAt \in 0..Len(toRename) :
            LET r == recoverSegments(aFiles, toRename, failAt)
            IN  /\ aFiles' = r.files
                /\ aResult' = IF r.err THEN "err" ELSE "ok"
    /\ UNCHANGED <<aPc, aClock, aCalls, aName, aBefore>>

RecoverNext ==
    \/ NewLocalLog
    \/ RecoverSegments
    \/ AppendCreate
    \/ AppendFlush

InitRecover == ConsumerInit /\ QueueOff /\ VirtualOff /\ RecoverInit /\ LockOff /\ DequeueOff /\ SendOff /\ HeapOff /\ ReadyOff /\ SerialOff /\ EvictOff /\ FilterOff /\ RemoteOff /\ StreamOff

SpecRecover == InitRecover /\ [][RecoverNext]_vars

\* ---------------------------------------------------------------------
\* appenders sharing one root: the lock file of virtualFilesystem

Appenders == 1..NumAppenders

\* mutant: the lock is handed out whatever the file holds
Lock_NoSizeCheck(file) == [file |-> "locked", err |-> FALSE]

\* virtualFilesystem.Lock: a non-empty lock file is a held lock and an error;
\* otherwise the file is (re)written non-empty
Lock(file) ==
    IF file = "locked" THEN [file |-> file, err |-> TRUE]
    ELSE [file |-> "locked", err |-> FALSE]

\* the Releaser: fs.Remove of the lock file
Release(file) == "absent"

\* the appenders between a successful Lock and their Release
Holders == {p \in Appenders : lPc[p] # "idle"}

\* logs over the same root, the lock file absent or left empty
LockInit ==
    /\ lPc = [p \in Appenders |-> "idle"]
    /\ lLock \in {"absent", "empty"}
    /\ lFiles = {} /\ lClock = 0
    /\ lName = [p \in Appenders |-> 0]
    /\ lCalls = 0
    /\ lErr = [p \in Appenders |-> FALSE]

\* an appender calls Append: fsys.Lock; on error Append returns it
LAppendLock ==
    /\ lCalls < MaxLockCalls
    /\ UNCHANGED notLockVars
    /\ \E p \in Appenders :
         /\ lPc[p] = "idle"
         /\ LET r == Lock(lLock)
            IN  /\ lLock' = r.file
                /\ lPc' = [lPc EXCEPT ![p] = IF r.err THEN "idle" ELSE "locked"]
                /\ lErr' = [lErr EXCEPT ![p] = r.err]
    /\ lCalls' = lCalls + 1
    /\ UNCHANGED <<lFiles, lClock, lName>>

\* the appender forms the name and creates the active file; a Create error
\* is returned and the deferred Release runs
LAppendCreate ==
    /\ UNCHANGED notLockVars
    /\ \E p \in Appenders :
         /\ lPc[p] = "locked"
         /\ \E timestamp \in {t \in {lClock, lClock + 1} : t > 0} :
              /\ lClock' = timestamp
              /\ \/ /\ lPc' = [lPc EXCEPT ![p] = "idle"]
                    /\ lErr' = [lErr EXCEPT ![p] = TRUE]
                    /\ lLock' = Release(lLock)
                    /\ UNCHANGED <<lFiles, lName>>
                 \/ /\ lFiles' = {f \in lFiles : ~(f.name = timestamp /\ f.ext = Active)}
                                    \cup {[name |-> timestamp, ext |-> Active, by |-> p]}
                    /\ lName' = [lName EXCEPT ![p] = timestamp]
                    /\ lPc' = [lPc EXCEPT ![p] = "created"]
                    /\ UNCHANGED <<lLock, lErr>>
    /\ UNCHANGED lCalls

\* the appender writes the rows, syncs and renames; whatever the outcome the
\* deferred Release runs as Append returns
LAppendFlush ==
    /\ UNCHANGED notLockVars
    /\ \E p \in Appenders :
         /\ lPc[p] = "created"
         /\ \E ok \in BOOLEAN :
              /\ lFiles' = IF ok
                           THEN {f \in lFiles : f.name # lName[p]}
                                  \cup {[name |-> lName[p], ext |-> Flushed, by |-> p]}
                           ELSE lFiles
              /\ lErr' = [lErr EXCEPT ![p] = ~ok]
         /\ lPc' = [lPc EXCEPT ![p] = "idle"]
         /\ lLock' = Release(lLock)
    /\ UNCHANGED <<lClock, lName, lCalls>>

LockNext ==
    \/ LAppendLock
    \/ LAppendCreate
    \/ LAppendFlush

InitLock == ConsumerInit /\ QueueOff /\ VirtualOff /\ AuditOff /\ LockInit /\ DequeueOff /\ SendOff /\ HeapOff /\ ReadyOff /\ SerialOff /\ EvictOff /\ FilterOff /\ RemoteOff /\ StreamOff

SpecLock == InitLock /\ [][LockNext]_vars

\* ---------------------------------------------------------------------
\* remoteQueue.Dequeue and the visibility extension

\* the responses of ReceiveMessage: up to MaxReceived messages
Received == UNION {[1..n -> 1..NumReceivable] : n \in 0..MaxReceived}

\* mutant: the extension is requested whatever the timeout
changeMessageVisibility_NoTimeoutCheck(records, timeout, callFails) ==
    IF Len(records) = 0
    THEN [calls |-> <<>>, err |-> FALSE]
    ELSE [calls |-> <<[entries |-> [k \in 1..Len(records) |-> records[k].id],
                       seconds |-> timeout \div Second]>>,
          err |-> callFails]

\* changeMessageVisibility: nothing for no records or a timeout under a
\* second; otherwise one ChangeMessageVisibilityBatch naming every record,
\* whose error is returned
changeMessageVisibility(records, timeout, callFails) ==
    LET seconds == timeout \div Second
    IN IF Len(records) = 0 THEN [calls |-> <<>>, err |-> FALSE]
       ELSE IF timeout = 0 \/ seconds <= 0 THEN [calls |-> <<>>, err |-> FALSE]
       ELSE [calls |-> <<[entries |-> [k \in 1..Len(records) |-> records[k].id],
                          seconds |-> seconds]>>,
             err |-> callFails]

\* mutant: the error of the visibility change is returned in place of the records
QueueDequeue_ReturnVisErr(messages, receiveFails, first, timeout, callFails) ==
    LET fetched == NewRecords(messages, first)
        vis == changeMessageVisibility(fetched, timeout, callFails)
    IN IF receiveFails
       THEN [records |-> <<>>, err |-> TRUE, calls |-> <<>>, visErr |-> FALSE]
       ELSE IF vis.err
            THEN [records |-> <<>>, err |-> TRUE, calls |-> vis.calls, visErr |-> TRUE]
            ELSE [records |-> fetched, err |-> FALSE, calls |-> vis.calls, visErr |-> FALSE]

\* remoteQueue.Dequeue: a ReceiveMessage error is returned; otherwise every
\* message becomes a record with a fresh id, the visibility change is tried
\* and its error only logged, and the records are returned
QueueDequeue(messages, receiveFails, first, timeout, callFails) ==
    LET fetched == NewRecords(messages, first)
        vis == changeMessageVisibility(fetched, timeout, callFails)
    IN IF receiveFails
       THEN [records |-> <<>>, err |-> TRUE, calls |-> <<>>, visErr |-> FALSE]
       ELSE [records |-> fetched, err |-> FALSE, calls |-> vis.calls, visErr |-> vis.err]

\* a remote queue is constructed with some visibility timeout
DequeueInit ==
    /\ dqTimeout \in 0..MaxVisibility
    /\ dqCalls = 0 /\ dqNextId = 1
    /\ dqMessages = <<>> /\ dqRecords = <<>> /\ dqErr = FALSE
    /\ dqVisCalls = <<>> /\ dqVisErr = FALSE

\* one call of Dequeue
DoDequeue ==
    /\ dqCalls < MaxDequeues
    /\ UNCHANGED notDequeueVars
    /\ dqCalls' = dqCalls + 1
    /\ \E messages \in Received, receiveFails, callFails \in BOOLEAN :
         LET r == QueueDequeue(messages, receiveFails, dqNextId, dqTimeout, callFails)
         IN  /\ dqMessages' = IF receiveFails THEN <<>> ELSE messages
             /\ dqRecords' = r.records
             /\ dqErr' = r.err
             /\ dqVisCalls' = r.calls
             /\ dqVisErr' = r.visErr
             /\ dqNextId' = dqNextId + Len(r.records)
    /\ UNCHANGED dqTimeout

DequeueNext == DoDequeue

InitDequeue ==
    ConsumerInit /\ QueueOff /\ VirtualOff /\ AuditOff /\ LockOff /\ DequeueInit /\ SendOff /\ HeapOff /\ ReadyOff /\ SerialOff /\ EvictOff /\ FilterOff /\ RemoteOff /\ StreamOff

SpecDequeue == InitDequeue /\ [][DequeueNext]_vars

\* ---------------------------------------------------------------------
\* http Client.Send behind its circuit breaker

\* the statuses a response is modelled to carry
Statuses == {200, 201, 204, 301, 404, 500}

\* the function Send hands to the breaker: POST, error on a transport failure
\* or on a status other than StatusOK
Post(transportErr, status) == transportErr \/ status # StatusOK

\* breaker.Run: an open circuit answers with an error at once; otherwise the
\* function runs, defaultFailureRate failures in a row (or one when half
\* open) open the circuit and a success closes it
Run(circuit, failures, fnErr) ==
    IF circuit = "open"
    THEN [ran |-> FALSE, err |-> TRUE, circuit |-> circuit, failures |-> failures]
    ELSE IF ~fnErr
         THEN [ran |-> TRUE, err |-> FALSE, circuit |-> "closed", failures |-> 0]
         ELSE IF circuit = "halfopen" \/ failures + 1 >= defaultFailureRate
              THEN [ran |-> TRUE, err |-> TRUE, circuit |-> "open", failures |-> 0]
              ELSE [ran |-> TRUE, err |-> TRUE, circuit |-> circuit,
                    failures |-> failures + 1]

\* mutant: any 2xx status counts as delivered
Send_Accept2xx(circuit, failures, transportErr, status) ==
    Run(circuit, failures, transportErr \/ status < 200 \/ status > 299)

\* Client.Send
Send(circuit, failures, transportErr, status) ==
    Run(circuit, failures, Post(transportErr, status))

\* NewClient: the breaker starts closed
SendInit ==
    /\ sCircuit = "closed" /\ sFailures = 0 /\ sCalls = FALSE /\ sPosted = FALSE
    /\ sBody = 0
    /\ sTransportErr = FALSE /\ sStatus = 0 /\ sErr = FALSE

\* one call of Send; the recipient answers with some status or the POST fails
DoSend ==
    /\ UNCHANGED notSendVars
    /\ \E p \in 1..NumPayloads, transportErr \in BOOLEAN, status \in Statuses :
         LET r == Send(sCircuit, sFailures, transportErr, status)
         IN  /\ sCircuit' = r.circuit
             /\ sBody' = IF r.ran THEN p ELSE 0
             /\ sFailures' = r.failures
             /\ sPosted' = r.ran
             /\ sTransportErr' = (r.ran /\ transportErr)
             /\ sStatus' = IF r.ran /\ ~transportErr THEN status ELSE 0
             /\ sErr' = r.err
    /\ sCalls' = TRUE

\* the cool-down of an open circuit passes
CoolDown ==
    /\ sCircuit = "open"
    /\ UNCHANGED notSendVars
    /\ sCircuit' = "halfopen"
    /\ UNCHANGED <<sFailures, sCalls, sPosted, sBody, sTransportErr, sStatus, sErr>>

SendNext ==
    \/ DoSend
    \/ CoolDown

InitSend ==
    ConsumerInit /\ QueueOff /\ VirtualOff /\ AuditOff /\ LockOff /\ DequeueOff
        /\ SendInit /\ HeapOff /\ ReadyOff /\ SerialOff /\ EvictOff /\ FilterOff /\ RemoteOff /\ StreamOff

SpecSend == InitSend /\ [][SendNext]_vars

\* ---------------------------------------------------------------------
\* FIFO.items as a Go slice: a window [arr, off, len] on a backing array

NoSlice == [arr |-> 0, off |-> 0, len |-> 0]

\* the elements seen through a slice
View(mem, h) == [i \in 1..h.len |-> mem[h.arr][h.off + i]]

\* cap(h)
Cap(mem, h) == Len(mem[h.arr]) - h.off

\* make([]T, n): a fresh array of n zero cells and the slice over it
Make(mem, n) ==
    [mem |-> Append(mem, [i \in 1..n |-> Nil]),
     h |-> [arr |-> Len(mem) + 1, off |-> 0, len |-> n]]

\* h[i] = x
SetIndex(mem, h, i, x) == [mem EXCEPT ![h.arr][h.off + i] = x]

\* append(h, x): in place while the capacity lasts; otherwise the elements
\* move to a fresh array of twice the capacity
GoAppend(mem, h, x) ==
    IF h.len < Cap(mem, h)
    THEN [mem |-> SetIndex(mem, h, h.len + 1, x), h |-> [h EXCEPT !.len = h.len + 1]]
    ELSE LET newcap == IF Cap(mem, h) = 0 THEN 1 ELSE 2 * Cap(mem, h)
             old == View(mem, h)
         IN [mem |-> Append(mem, [i \in 1..newcap |->
                                     IF i <= h.len THEN old[i]
                                     ELSE IF i = h.len + 1 THEN x ELSE Nil]),
             h |-> [arr |-> Len(mem) + 1, off |-> 0, len |-> h.len + 1]]

\* FIFO.Remove: the first entry of the key is cut out by
\* append(items[:k], items[k+1:]...), which moves the tail down in place
HeapRemove(mem, h, key) ==
    LET v == View(mem, h)
        hits == {i \in 1..h.len : v[i] = key}
        k == CHOOSE i \in hits : \A j \in hits : i <= j
    IN IF hits = {} THEN [mem |-> mem, h |-> h]
       ELSE [mem |-> [mem EXCEPT ![h.arr] =
                        [c \in 1..Len(mem[h.arr]) |->
                            IF c >= h.off + k /\ c < h.off + h.len
                            THEN mem[h.arr][c + 1] ELSE mem[h.arr][c]]],
             h |-> [h EXCEPT !.len = h.len - 1]]

\* FIFO.Slice: f.items[0:], a second window on the same array
HeapSlice(mem, h) == [mem |-> mem, h |-> h]

\* FIFO.Keys: the keys are copied into a fresh array
HeapKeys(mem, h) ==
    LET m == Make(mem, h.len)
    IN [mem |-> [m.mem EXCEPT ![m.h.arr] = View(mem, h)], h |-> m.h]

\* the keys added
Keys == 1..NumKeys

\* NewFIFO: items = make([]KeyValue, 0)
HeapInit ==
    /\ hMem = Make(<<>>, 0).mem
    /\ hItems = Make(<<>>, 0).h
    /\ hContents = <<>>
    /\ hSlice = NoSlice /\ hSliceAt = <<>>
    /\ hKeys = NoSlice /\ hKeysAt = <<>>
    /\ hOps = 0

\* a call is made on the FIFO
HeapCall ==
    /\ hOps < MaxFifoOps
    /\ hOps' = hOps + 1
    /\ UNCHANGED notHeapVars

FifoAddCall ==
    /\ HeapCall
    /\ \E key \in Keys :
         LET r == GoAppend(hMem, hItems, key)
         IN  /\ hMem' = r.mem /\ hItems' = r.h
             /\ hContents' = Add(hContents, key)
    /\ UNCHANGED <<hSlice, hSliceAt, hKeys, hKeysAt>>

FifoRemoveCall ==
    /\ HeapCall
    /\ \E key \in Keys :
         LET r == HeapRemove(hMem, hItems, key)
             hits == {i \in 1..Len(hContents) : hContents[i] = key}
             k == CHOOSE i \in hits : \A j \in hits : i <= j
         IN  /\ hMem' = r.mem /\ hItems' = r.h
             /\ hContents' = IF hits = {} THEN hContents
                              ELSE SubSeq(hContents, 1, k - 1)
                                     \o SubSeq(hContents, k + 1, Len(hContents))
    /\ UNCHANGED <<hSlice, hSliceAt, hKeys, hKeysAt>>

\* FIFO.Pop: items = items[1:]
FifoPopCall ==
    /\ HeapCall
    /\ hItems.len > 0
    /\ hItems' = [hItems EXCEPT !.off = hItems.off + 1, !.len = hItems.len - 1]
    /\ hContents' = Tail(hContents)
    /\ UNCHANGED <<hMem, hSlice, hSliceAt, hKeys, hKeysAt>>

\* FIFO.Purge: items = items[:0]
FifoPurgeCall ==
    /\ HeapCall
    /\ hItems' = [hItems EXCEPT !.len = 0]
    /\ hContents' = Purge(hContents)
    /\ UNCHANGED <<hMem, hSlice, hSliceAt, hKeys, hKeysAt>>

\* FIFO.Dequeue: items = items[k:] when fn fails on entry k, items[:0] otherwise
FifoDequeueCall ==
    /\ HeapCall
    /\ \E fails \in [1..hItems.len -> BOOLEAN] :
         LET d == Dequeue(hContents, fails)
             done == Len(d.dequeued)
         IN  /\ hContents' = d.items
             /\ hItems' = IF d.err
                          THEN [hItems EXCEPT !.off = hItems.off + done,
                                              !.len = hItems.len - done]
                          ELSE [hItems EXCEPT !.len = 0]
    /\ UNCHANGED <<hMem, hSlice, hSliceAt, hKeys, hKeysAt>>

\* a caller takes Slice() and keeps it
FifoSliceCall ==
    /\ HeapCall
    /\ hSlice = NoSlice
    /\ hItems.len > 0
    /\ LET r == HeapSlice(hMem, hItems)
       IN  /\ hMem' = r.mem /\ hSlice' = r.h
           /\ hSliceAt' = View(r.mem, r.h)
    /\ UNCHANGED <<hItems, hContents, hKeys, hKeysAt>>

\* a caller takes Keys() and keeps it
FifoKeysCall ==
    /\ HeapCall
    /\ hKeys = NoSlice
    /\ hItems.len > 0
    /\ LET r == HeapKeys(hMem, hItems)
       IN  /\ hMem' = r.mem /\ hKeys' = r.h
           /\ hKeysAt' = View(r.mem, r.h)
    /\ UNCHANGED <<hItems, hContents, hSlice, hSliceAt>>

\* the caller overwrites an element of a slice it was returned
CallerWrite ==
    /\ HeapCall
    /\ \E key \in Keys :
         \/ /\ hSlice # NoSlice
            /\ \E i \in 1..hSlice.len :
                 /\ hMem' = SetIndex(hMem, hSlice, i, key)
                 /\ hSliceAt' = [hSliceAt EXCEPT ![i] = key]
            /\ UNCHANGED hKeysAt
         \/ /\ hKeys # NoSlice
            /\ \E i \in 1..hKeys.len :
                 /\ hMem' = SetIndex(hMem, hKeys, i, key)
                 /\ hKeysAt' = [hKeysAt EXCEPT ![i] = key]
            /\ UNCHANGED hSliceAt
    /\ UNCHANGED <<hItems, hContents, hSlice, hKeys>>

HeapNext ==
    \/ FifoAddCall
    \/ FifoRemoveCall
    \/ FifoPopCall
    \/ FifoPurgeCall
    \/ FifoDequeueCall
    \/ FifoSliceCall
    \/ FifoKeysCall
    \/ CallerWrite

InitHeap ==
    ConsumerInit /\ QueueOff /\ VirtualOff /\ AuditOff /\ LockOff /\ DequeueOff
        /\ SendOff /\ HeapInit /\ ReadyOff /\ SerialOff /\ EvictOff /\ FilterOff /\ RemoteOff /\ StreamOff

SpecHeap == InitHeap /\ [][HeapNext]_vars

\* ---------------------------------------------------------------------
\* status API: liveness and readiness of the process

APIPathLivenessQuery == "/health"
APIPathReadinessQuery == "/ready"

Consumers == 1..NumConsumers

\* handleLiveness: WriteHeader(http.StatusOK)
handleLiveness(consumers) == StatusOK

\* handleReadiness: WriteHeader(http.StatusOK), whatever the consumers do
handleReadiness(consumers) == StatusOK

\* ServeHTTP for a GET of one of the two paths of the routing table
ServeHTTP(path, consumers) ==
    IF path = APIPathLivenessQuery THEN handleLiveness(consumers)
    ELSE handleReadiness(consumers)

\* the process has created its consumers and serves the status API
ReadyInit ==
    /\ rConsumers = [c \in Consumers |-> "created"]
    /\ rPath = "" /\ rAllRunning = FALSE /\ rStatus = 0

\* a consumer's Run is started
ConsumerRuns ==
    /\ UNCHANGED notReadyVars
    /\ \E c \in Consumers :
         /\ rConsumers[c] = "created"
         /\ rConsumers' = [rConsumers EXCEPT ![c] = "running"]
    /\ UNCHANGED <<rPath, rAllRunning, rStatus>>

\* a consumer's Run returns
ConsumerStops ==
    /\ UNCHANGED notReadyVars
    /\ \E c \in Consumers :
         /\ rConsumers[c] = "running"
         /\ rConsumers' = [rConsumers EXCEPT ![c] = "stopped"]
    /\ UNCHANGED <<rPath, rAllRunning, rStatus>>

\* a GET of /health or /ready is served
ServeGet ==
    /\ UNCHANGED notReadyVars
    /\ \E path \in {APIPathLivenessQuery, APIPathReadinessQuery} :
         /\ rPath' = path
         /\ rStatus' = ServeHTTP(path, rConsumers)
    /\ rAllRunning' = \A c \in Consumers : rConsumers[c] = "running"
    /\ UNCHANGED rConsumers

ReadyNext ==
    \/ ConsumerRuns
    \/ ConsumerStops
    \/ ServeGet

InitReady ==
    ConsumerInit /\ QueueOff /\ VirtualOff /\ AuditOff /\ LockOff /\ DequeueOff
        /\ SendOff /\ HeapOff /\ ReadyInit /\ SerialOff /\ EvictOff /\ FilterOff /\ RemoteOff /\ StreamOff

SpecReady == InitReady /\ [][ReadyNext]_vars

\* ---------------------------------------------------------------------
\* Run followed call by call: a state function begins when Run takes a tick
\* and is over when it returns; commit is a call that begins and returns.
\* Records are counted, not told apart, and the clock is left out: whether
\* the batch is too old is either outcome once activeSince is set.

\* commit started with a go statement: replicate goes on without waiting
CommitCall_Goroutine(committing) == [committing |-> committing + 1, wait |-> FALSE]

\* replicate's call of c.commit(dequeued): an ordinary call, replicate waits
\* for it to return
CommitCall(committing) == [committing |-> committing + 1, wait |-> TRUE]

SerialInit ==
    /\ zPc = "select" /\ zState = "gather" /\ zLen = 0 /\ zActive = FALSE
    /\ zErrors = 0 /\ zCommitting = 0 /\ zDrained = 0 /\ zErr = FALSE
    /\ zStop = "idle"

\* Run, case <-step.C: the state function held is called
SerialTick ==
    /\ UNCHANGED notSerialVars
    /\ zPc = "select"
    /\ zPc' = zState
    /\ UNCHANGED <<zState, zLen, zActive, zErrors, zCommitting, zDrained, zErr, zStop>>

\* Consumer.gather, from call to return
SerialGather ==
    /\ UNCHANGED notSerialVars
    /\ zPc = "gather"
    /\ zPc' = "select"
    /\ UNCHANGED <<zCommitting, zDrained, zErr, zStop>>
    /\ IF zErrors > 0
       THEN LET out == breakOut(zErrors, zLen)
            IN /\ zErrors' = out.gatherErrors
               /\ zState' = out.state
               /\ UNCHANGED <<zLen, zActive>>
       ELSE \E tooOld \in {FALSE, zActive} :
              IF zLen > ActiveTargetSize \/ tooOld
              THEN /\ zState' = "replicate"
                   /\ UNCHANGED <<zLen, zActive, zErrors>>
              ELSE \/ \* queue.Dequeue returns an error
                      /\ zErrors' = zErrors + 1
                      /\ zState' = "gather"
                      /\ UNCHANGED <<zLen, zActive>>
                   \/ \* queue.Dequeue returns no records
                      /\ zState' = "gather"
                      /\ UNCHANGED <<zLen, zActive, zErrors>>
                   \/ \* queue.Dequeue returns records, n of them not in the store
                      \E n \in 0..MaxBatch :
                         /\ zLen + n <= MaxEntries
                         /\ zLen' = zLen + n
                         /\ zActive' = TRUE
                         /\ zState' = "gather"
                         /\ UNCHANGED zErrors

\* Consumer.replicate, from its call to its call of commit (or to its return
\* when the FIFO is empty): the drain sends the first k entries
SerialReplicate ==
    /\ UNCHANGED notSerialVars
    /\ zPc = "replicate"
    /\ UNCHANGED <<zActive, zErrors, zStop>>
    /\ IF zLen = 0
       THEN /\ zState' = "gather"
            /\ zPc' = "select"
            /\ UNCHANGED <<zLen, zCommitting, zDrained, zErr>>
       ELSE \E k \in 0..zLen :
              LET c == CommitCall(zCommitting)
              IN /\ zDrained' = k
                 /\ zErr' = (k < zLen)
                 /\ zLen' = zLen - k
                 /\ zCommitting' = c.committing
                 /\ zPc' = IF c.wait THEN "commit" ELSE "committed"
                 /\ UNCHANGED zState

\* Consumer.commit returns
SerialCommitReturns ==
    /\ UNCHANGED notSerialVars
    /\ zCommitting > 0
    /\ zCommitting' = zCommitting - 1
    /\ zPc' = IF zPc = "commit" THEN "committed" ELSE zPc
    /\ UNCHANGED <<zState, zLen, zActive, zErrors, zDrained, zErr, zStop>>

\* Consumer.replicate, from after its call of commit to its return
SerialReplicateReturns ==
    /\ UNCHANGED notSerialVars
    /\ zPc = "committed"
    /\ zState' = IF zErr THEN "failure" ELSE "gather"
    /\ zPc' = "select"
    /\ UNCHANGED <<zLen, zActive, zErrors, zCommitting, zDrained, zErr, zStop>>

\* Consumer.failure, from call to return
SerialFailure ==
    /\ UNCHANGED notSerialVars
    /\ zPc = "failure"
    /\ zLen' = 0
    /\ zState' = "gather"
    /\ zPc' = "select"
    /\ UNCHANGED <<zActive, zErrors, zCommitting, zDrained, zErr, zStop>>

\* Consumer.Stop: c.stop <- q
SerialStopCall ==
    /\ UNCHANGED notSerialVars
    /\ zStop = "idle"
    /\ zStop' = "sending"
    /\ UNCHANGED <<zPc, zState, zLen, zActive, zErrors, zCommitting, zDrained, zErr>>

\* stop case that purges and returns without closing q
SerialStopCase_NoClose ==
    /\ UNCHANGED notSerialVars
    /\ zPc = "select" /\ zStop = "sending"
    /\ zLen' = 0
    /\ zPc' = "exited"
    /\ zStop' = "sent"
    /\ UNCHANGED <<zState, zActive, zErrors, zCommitting, zDrained, zErr>>

\* Run, case q := <-c.stop: purge, close(q), return
SerialStopCase ==
    /\ UNCHANGED notSerialVars
    /\ zPc = "select" /\ zStop = "sending"
    /\ zLen' = 0
    /\ zPc' = "exited"
    /\ zStop' = "waiting"
    /\ UNCHANGED <<zState, zActive, zErrors, zCommitting, zDrained, zErr>>

\* Consumer.Stop: <-q
SerialStopReturn ==
    /\ UNCHANGED notSerialVars
    /\ zStop = "waiting" /\ zPc = "exited"
    /\ zStop' = "returned"
    /\ UNCHANGED <<zPc, zState, zLen, zActive, zErrors, zCommitting, zDrained, zErr>>

SerialNext ==
    \/ SerialTick
    \/ SerialGather
    \/ SerialReplicate
    \/ SerialCommitReturns
    \/ SerialReplicateReturns
    \/ SerialFailure
    \/ SerialStopCall
    \/ SerialStopCase
    \/ SerialStopReturn

InitSerial ==
    ConsumerInit /\ QueueOff /\ VirtualOff /\ AuditOff /\ LockOff /\ DequeueOff
        /\ SendOff /\ HeapOff /\ ReadyOff /\ SerialInit /\ EvictOff /\ FilterOff /\ RemoteOff /\ StreamOff

SpecSerial == InitSerial /\ [][SerialNext]_vars

\* every state function called, and every commit, returns; select takes a case
\* that is ready and picks among several ready cases at random, so a stop that
\* stays offered is taken at one of the selects it is ready at; Stop's receive
\* from the closed q returns
StopFairness ==
    /\ WF_vars(SerialGather)
    /\ WF_vars(SerialReplicate)
    /\ WF_vars(SerialCommitReturns)
    /\ WF_vars(SerialReplicateReturns)
    /\ WF_vars(SerialFailure)
    /\ SF_vars(SerialStopCase)
    /\ WF_vars(SerialStopReturn)

SpecStop == InitSerial /\ [][SerialNext]_vars /\ StopFairness

\* ---------------------------------------------------------------------
\* FIFO with its eviction callback: every operation returns the items it
\* leaves and the onEvict calls it made, in order. An entry is a key with
\* the number of the Add that brought it, so that entries under one key are
\* told apart.

Purged == "purged"
Popped == "popped"
Removed == "removed"
Dequeued == "dequeued"

Evict(reason, kv) == [reason |-> reason, kv |-> kv]

\* FIFO.Remove: the first entry under the key is cut out and reported
RECURSIVE RemoveFrom(_, _, _)
RemoveFrom(items, key, k) ==
    IF k > Len(items)
    THEN [items |-> items, evicts |-> <<>>, ok |-> FALSE]
    ELSE IF items[k].key = key
         THEN [items |-> SubSeq(items, 1, k - 1) \o SubSeq(items, k + 1, Len(items)),
               evicts |-> <<Evict(Removed, items[k])>>, ok |-> TRUE]
         ELSE RemoveFrom(items, key, k + 1)

FifoRemove(items, key) == RemoveFrom(items, key, 1)

\* FIFO.Pop: the head entry is taken and reported
FifoPop(items) ==
    IF Len(items) = 0
    THEN [items |-> items, evicts |-> <<>>, ok |-> FALSE]
    ELSE [items |-> Tail(items), evicts |-> <<Evict(Popped, Head(items))>>, ok |-> TRUE]

\* FIFO.Purge: every entry is reported, then the items are cut to nothing
FifoPurge(items) ==
    [items |-> Purge(items),
     evicts |-> [k \in 1..Len(items) |-> Evict(Purged, items[k])]]

\* Dequeue that reports an entry before fn is called on it
FifoDequeue_EvictBeforeFn(items, fails) ==
    LET d == Dequeue(items, fails)
    IN [items |-> d.items, err |-> d.err,
        evicts |-> [k \in 1..Len(d.calls) |-> Evict(Dequeued, d.calls[k].rec)]]

\* FIFO.Dequeue: an entry is reported after fn returned nil on it, before it
\* is appended to the result
FifoDequeue(items, fails) ==
    LET d == Dequeue(items, fails)
        passed == SelectSeq(d.calls, LAMBDA c : c.ok)
    IN [items |-> d.items, err |-> d.err,
        evicts |-> [k \in 1..Len(passed) |-> Evict(Dequeued, passed[k].rec)]]

EvictInit ==
    /\ ePc = "on" /\ eItems = <<>> /\ eAdded = 0 /\ eOps = 0 /\ eOp = "none"
    /\ eBefore = <<>> /\ eEvicts = <<>> /\ eErr = FALSE

\* what every call on the followed FIFO does besides its own effect
EvictCall(op) ==
    /\ UNCHANGED notEvictVars
    /\ ePc = "on" /\ eOps < MaxEvictOps
    /\ eOps' = eOps + 1
    /\ eOp' = op
    /\ eBefore' = eItems
    /\ UNCHANGED ePc

EvAdd ==
    /\ EvictCall("add")
    /\ \E key \in Keys :
         eItems' = Add(eItems, [key |-> key, n |-> eAdded + 1])
    /\ eAdded' = eAdded + 1
    /\ eEvicts' = <<>> /\ eErr' = FALSE

EvRemove ==
    /\ EvictCall("remove")
    /\ \E key \in Keys :
         LET r == FifoRemove(eItems, key)
         IN eItems' = r.items /\ eEvicts' = r.evicts
    /\ eErr' = FALSE
    /\ UNCHANGED eAdded

EvPop ==
    /\ EvictCall("pop")
    /\ LET r == FifoPop(eItems)
       IN eItems' = r.items /\ eEvicts' = r.evicts
    /\ eErr' = FALSE
    /\ UNCHANGED eAdded

EvPurge ==
    /\ EvictCall("purge")
    /\ LET r == FifoPurge(eItems)
       IN eItems' = r.items /\ eEvicts' = r.evicts
    /\ eErr' = FALSE
    /\ UNCHANGED eAdded

EvDequeue ==
    /\ EvictCall("dequeue")
    /\ \E fails \in [1..Len(eItems) -> BOOLEAN] :
         LET r == FifoDequeue(eItems, fails)
         IN eItems' = r.items /\ eEvicts' = r.evicts /\ eErr' = r.err
    /\ UNCHANGED eAdded

EvictNext ==
    \/ EvAdd
    \/ EvRemove
    \/ EvPop
    \/ EvPurge
    \/ EvDequeue

InitEvict ==
    ConsumerInit /\ QueueOff /\ VirtualOff /\ AuditOff /\ LockOff /\ DequeueOff
        /\ SendOff /\ HeapOff /\ ReadyOff /\ SerialOff /\ EvictInit /\ FilterOff /\ RemoteOff /\ StreamOff

SpecEvict == InitEvict /\ [][EvictNext]_vars

\* ---------------------------------------------------------------------
\* gather's filter against the dedup store, fed by a queue whose record ids
\* can come again (any Queue whose Dequeue does not mint a new id per call)

\* the record lists one Dequeue can return
RecordLists ==
    UNION {[1..n -> {[id |-> i, mid |-> i] : i \in Idents}] : n \in 1..MaxBatch}

FilterInit ==
    /\ xPc = "on" /\ xStore = <<>> /\ xFifo = <<>> /\ xOps = 0
    /\ xBefore = <<>> /\ xRecords = <<>> /\ xErr = FALSE

\* Consumer.gather on a non-empty Dequeue
FilterGather ==
    /\ UNCHANGED notFilterVars
    /\ xPc = "on" /\ xOps < MaxFilterOps
    /\ xOps' = xOps + 1
    /\ \E records \in RecordLists, storeFails \in BOOLEAN :
         /\ xFifo' = AddAll(xFifo, gatherDifference(xStore, records, storeFails))
         /\ xRecords' = records
         /\ xErr' = storeFails
    /\ xBefore' = xFifo
    /\ UNCHANGED <<xPc, xStore>>

\* Consumer.replicate with every send and the commit succeeding: the drained
\* ids go into the store
FilterReplicate ==
    /\ UNCHANGED notFilterVars
    /\ xPc = "on" /\ xOps < MaxFilterOps
    /\ Len(xFifo) > 0
    /\ xOps' = xOps + 1
    /\ xStore' = StoreAdd(xStore, xFifo)
    /\ xFifo' = <<>>
    /\ xBefore' = <<>> /\ xRecords' = <<>> /\ xErr' = FALSE
    /\ UNCHANGED xPc

FilterNext ==
    \/ FilterGather
    \/ FilterReplicate

InitFilter ==
    ConsumerInit /\ QueueOff /\ VirtualOff /\ AuditOff /\ LockOff /\ DequeueOff
        /\ SendOff /\ HeapOff /\ ReadyOff /\ SerialOff /\ EvictOff /\ FilterInit /\ RemoteOff /\ StreamOff

SpecFilter == InitFilter /\ [][FilterNext]_vars

\* ---------------------------------------------------------------------
\* remoteStore.Intersection. The lists it returns are built by ranging over
\* maps, so they hold no ident twice and come in any order: they are kept as
\* the sets of their idents.

RemoteIdents == 1..NumRemoteIdents
RemoteLists == UNION {[1..n -> RemoteIdents] : n \in 0..MaxRemoteIdents}
Peers == 1..NumPeers

\* an Intersections value: what one store reports for the idents asked,
\* held as the two sets of idents
Intersections(held, idents) ==
    [Union |-> IdentSet(idents) \cap held, Difference |-> IdentSet(idents) \ held]

\* filter(h, v): for every a of v, every b of h equal to it; the length of
\* the result is all that is used of it where v is held as a set
filterLen(h, v) == Cardinality({i \in 1..Len(h) : h[i] \in v})

\* storeInstances: an error from the peer set, none reported, or fewer than
\* the replication factor
storeInstances(currentFails) ==
    IF currentFails \/ NumPeers = 0 \/ NumPeers < ReplicationFactor
    THEN [err |-> TRUE, instances |-> {}]
    ELSE [err |-> FALSE, instances |-> Peers]

\* remoteStore.gather: one post per instance, the responses that arrive are
\* kept; an error if fewer than the replication factor arrived
remoteGather(instances, idents, peers, postFails) ==
    LET arrived == {p \in instances : ~postFails[p]}
    IN IF Cardinality(arrived) < ReplicationFactor
       THEN [err |-> TRUE, responded |-> {}, intersections |-> {}]
       ELSE [err |-> FALSE, responded |-> arrived,
             intersections |-> {Intersections(peers[p], idents) : p \in arrived}]

\* remoteStore.Intersection
remoteIntersection(idents, local, peers, currentFails, postFails) ==
    LET localIn == Intersections(local, idents)
        inst == storeInstances(currentFails)
        g == remoteGather(inst.instances, idents, peers, postFails)
        all == g.intersections \cup {localIn}
        uni == UNION {IdentSet(idents) \cap x.Union : x \in all}
        diff == UNION {IdentSet(idents) \cap x.Difference : x \in all}
        none(err) == [union |-> {}, difference |-> {}, responded |-> {}, err |-> err]
    IN IF filterLen(idents, localIn.Union) = Len(idents)
       THEN none(FALSE)
       ELSE IF inst.err THEN none(TRUE)
       ELSE IF g.err THEN none(TRUE)
       ELSE [union |-> uni, difference |-> diff \ uni,
             responded |-> g.responded, err |-> FALSE]

\* a remote store and its peers, each holding some idents
RemoteInit ==
    /\ mPc = "on"
    /\ mLocal \in SUBSET RemoteIdents
    /\ mPeers \in [Peers -> SUBSET RemoteIdents]
    /\ mCalls = FALSE
    /\ mIn = <<>> /\ mResponded = {} /\ mUnion = {} /\ mDifference = {}
    /\ mErr = FALSE

RemoteIntersectionCall ==
    /\ UNCHANGED notRemoteVars
    /\ mPc = "on"
    /\ \E idents \in RemoteLists, currentFails \in BOOLEAN,
          postFails \in [Peers -> BOOLEAN] :
         LET r == remoteIntersection(idents, mLocal, mPeers, currentFails, postFails)
         IN /\ mIn' = idents
            /\ mUnion' = r.union
            /\ mDifference' = r.difference
            /\ mResponded' = r.responded
            /\ mErr' = r.err
    /\ mCalls' = TRUE
    /\ UNCHANGED <<mPc, mLocal, mPeers>>

RemoteNext == RemoteIntersectionCall

InitRemote ==
    ConsumerInit /\ QueueOff /\ VirtualOff /\ AuditOff /\ LockOff /\ DequeueOff
        /\ SendOff /\ HeapOff /\ ReadyOff /\ SerialOff /\ EvictOff /\ FilterOff
        /\ RemoteInit /\ StreamOff

SpecRemote == InitRemote /\ [][RemoteNext]_vars

\* ---------------------------------------------------------------------
\* stream intersection: union and difference are maps from a segment to a
\* slice of record ids, grown by append over the arrays of mem

RecordIds == 1..NumRecordIds

\* the records a segment can hold: distinct ids, in any order
SegmentRecords ==
    {r \in UNION {[1..n -> RecordIds] : n \in 0..NumRecordIds} :
        \A i, j \in 1..Len(r) : i # j => r[i] # r[j]}

\* what a query can hold for one segment: nothing, or a list of ids, kept as
\* the set of them
SegmentQueries == {[ok |-> FALSE, ids |-> {}]} \cup {[ok |-> TRUE, ids |-> p] : p \in SUBSET RecordIds}

\* append onto a map entry: a missing entry is the nil slice
AppendTo(mem, h, x) ==
    IF h = NoSlice
    THEN [mem |-> Append(mem, <<x>>), h |-> [arr |-> Len(mem) + 1, off |-> 0, len |-> 1]]
    ELSE GoAppend(mem, h, x)

\* the Walk of one segment from record k on, u and d being union[segment]
\* and difference[segment]
RECURSIVE WalkFrom(_, _, _, _, _, _, _)
WalkFrom(mem, u, d, records, k, all, q) ==
    IF k > Len(records) THEN [mem |-> mem, u |-> u, d |-> d]
    ELSE IF all
         THEN LET a == AppendTo(mem, u, records[k])
              IN WalkFrom(a.mem, a.h, d, records, k + 1, all, q)
         ELSE IF ~q.ok
              THEN LET a == AppendTo(mem, d, records[k])
                   IN WalkFrom(a.mem, u, a.h, records, k + 1, all, q)
              ELSE IF records[k] \in q.ids
                   THEN LET a == AppendTo(mem, u, records[k])
                        IN WalkFrom(a.mem, a.h, d, records, k + 1, all, q)
                   ELSE \* difference[segment] = append(union[segment], record.ID)
                        LET a == AppendTo(mem, u, records[k])
                        IN WalkFrom(a.mem, u, a.h, records, k + 1, all, q)

\* intersection: every segment is walked; the maps' entries as they read
\* when it returns
intersection(segments, all, query) ==
    LET walked == [s \in 1..Len(segments) |->
                      WalkFrom(<<>>, NoSlice, NoSlice, segments[s], 1, all, query[s])]
    IN [union |-> [s \in 1..Len(segments) |-> View(walked[s].mem, walked[s].u)],
        difference |-> [s \in 1..Len(segments) |-> View(walked[s].mem, walked[s].d)]]

\* some segments and a query over them are at hand
StreamInit ==
    /\ tPc = "on" /\ tCalls = FALSE
    /\ \E n \in 1..NumSegments :
         /\ tSegments \in [1..n -> SegmentRecords]
         /\ tQuery \in [1..n -> SegmentQueries]
    /\ tAll \in BOOLEAN
    /\ tUnion = <<>> /\ tDifference = <<>>

IntersectionCall ==
    /\ UNCHANGED notStreamVars
    /\ tPc = "on" /\ ~tCalls
    /\ LET r == intersection(tSegments, tAll, tQuery)
       IN /\ tUnion' = r.union
          /\ tDifference' = r.difference
    /\ tCalls' = TRUE
    /\ UNCHANGED <<tPc, tSegments, tAll, tQuery>>

StreamNext == IntersectionCall

InitStream ==
    ConsumerInit /\ QueueOff /\ VirtualOff /\ AuditOff /\ LockOff /\ DequeueOff
        /\ SendOff /\ HeapOff /\ ReadyOff /\ SerialOff /\ EvictOff /\ FilterOff
        /\ RemoteOff /\ StreamInit

SpecStream == InitStream /\ [][StreamNext]_vars

\* ---------------------------------------------------------------- properties
EventsOf(op) == {i \in 1..Len(events) : events[i].op = op}

\* C1: a drain calls fn on the entries in insertion order from the head,
\* stops at the first entry fn fails on, returns exactly the entries before
\* it, and leaves the failing entry and all later ones in the FIFO in order;
\* when fn never fails the FIFO is empty afterwards.
C1_DrainOrder ==
    lastStep = "replicate" =>
        LET n == Len(drainCalls)
        IN /\ n >= 1 /\ n <= Len(drainIn)
           /\ \A i \in 1..n : drainCalls[i].rec = drainIn[i]
           /\ \A i \in 1..(n - 1) : drainCalls[i].ok
           /\ drainErr <=> ~drainCalls[n].ok
           /\ IF drainErr
              THEN /\ drainOut = SubSeq(drainIn, 1, n - 1)
                   /\ fifo = SubSeq(drainIn, n, Len(drainIn))
              ELSE /\ n = Len(drainIn)
                   /\ drainOut = drainIn
                   /\ fifo = <<>>

C1_Witness ==
    /\ lastStep = "replicate" /\ drainErr
    /\ Len(drainOut) = 1 /\ Len(fifo) = 2

\* C2: every record handed to audit.append and queue.commit in a replicate
\* step is one whose send succeeded earlier in that step.
C2_OnlySentCommitted ==
    \A e \in EventsOf("append") \cup EventsOf("commit") :
        \A i \in 1..Len(events[e].txn) :
            \E j \in 1..Len(drainCalls) :
                drainCalls[j].rec = events[e].txn[i] /\ drainCalls[j].ok

C2_Witness ==
    /\ lastStep = "replicate" /\ drainErr
    /\ \E e \in EventsOf("commit") : Len(events[e].txn) = 2

\* C3: an id is passed to queue.commit at most once, every id in the dedup
\* store was passed to it exactly once, and within a commit sub-step the
\* successful queue.commit of a transaction precedes its store.Add.
C3_CommitBeforeDedup ==
    /\ \A id \in 1..MaxDeliveries : commitCount[id] <= 1
    /\ \A k \in 1..Len(store) : commitCount[store[k]] = 1
    /\ \A a \in EventsOf("storeAdd") :
          \E c \in EventsOf("commit") :
              c < a /\ events[c].ok /\ events[c].txn = events[a].txn

C3_Witness ==
    /\ lastStep = "replicate"
    /\ Len(store) = 2
    /\ \E a \in EventsOf("storeAdd") : events[a].ok /\ Len(events[a].txn) = 2

\* C4 (as claimed): when queue.commit returns an error during replicate the
\* next state is failure.
C4_CommitErrorFails ==
    (lastStep = "replicate" /\ \E c \in EventsOf("commit") : ~events[c].ok)
        => state = "failure"

\* C5: after queue.commit returned an error for a batch, none of the batch's
\* ids are in the dedup store and none of its records are in the FIFO.
C5_FailedCommitFrame ==
    /\ \A k \in 1..Len(store) : store[k] \notin commitFailedIds
    /\ Ids(fifo) \cap commitFailedIds = {}

C5_Witness ==
    /\ lastStep = "replicate" /\ ~drainErr
    /\ Cardinality(commitFailedIds) = 2
    /\ Len(store) = 1

\* C6: when send fails on the j-th of n entries, audit.append and queue.commit
\* receive exactly entries 1..j-1 in order and the next state is failure; the
\* failure step hands entries j..n in order to queue.failed and leaves the
\* FIFO empty.
C6_PartialDrain ==
    LET j == Len(drainCalls)
        n == Len(drainIn)
    IN /\ (lastStep = "replicate" /\ drainErr) =>
             /\ EventsOf("append") # {} /\ EventsOf("commit") # {}
             /\ \A e \in EventsOf("append") \cup EventsOf("commit") :
                    events[e].txn = SubSeq(drainIn, 1, j - 1)
             /\ state = "failure"
       /\ lastStep \in {"failure", "failure_error"} =>
             /\ drainErr
             /\ failedTxn = SubSeq(drainIn, j, n)
             /\ fifo = <<>>

C6_Witness ==
    /\ lastStep = "failure"
    /\ Len(drainIn) = 3 /\ Len(drainCalls) = 2
    /\ Len(failedTxn) = 2

\* C7: no record is passed to both queue.commit and queue.failed, and a
\* record held in the FIFO is held once and was passed to neither.
C7_ExclusiveOwnership ==
    /\ \A id \in 1..MaxDeliveries : ~(commitCount[id] > 0 /\ failedCount[id] > 0)
    /\ \A i, k \in 1..Len(fifo) : i # k => fifo[i].id # fifo[k].id
    /\ \A i \in 1..Len(fifo) :
          commitCount[fifo[i].id] = 0 /\ failedCount[fifo[i].id] = 0

C7_Witness ==
    /\ \E id \in 1..MaxDeliveries : commitCount[id] > 0
    /\ \E id \in 1..MaxDeliveries : failedCount[id] > 0
    /\ Len(fifo) > 0

\* C8 (as claimed): when the run has ended in stop, consumed_records =
\* replicated_records + failed_records + records in the FIFO when purged.
C8_CounterBalance ==
    stopPc = "returned" =>
        consumedRecords = replicatedRecords + failedRecords + inFlightOnExit

\* C9 (as claimed): a redelivery of a source message whose committed
\* delivery is still in the dedup store is not added to the FIFO.
C9_RedeliveryDropped ==
    \A i \in 1..Len(fifo) :
        ~\E k \in 1..Len(store) : delivered[store[k]] = fifo[i].mid

\* C10: once Stop has returned the FIFO is empty and Run has exited, and the
\* stop signal was taken between state steps.
C10_StopPurges ==
    stopPc = "returned" =>
        /\ Len(fifo) = 0
        /\ runPc = "exited"
        /\ stopPurgePc = "select"

C10_Witness ==
    /\ stopPc = "returned"
    /\ inFlightOnExit = 2
    /\ replicatedRecords > 0

\* a gather step is taken
GatherStep == runPc = "step" /\ state = "gather" /\ runPc' = "select"

\* C11 (as claimed): gather sets active_since only when it was zero; a later
\* non-empty dequeue into the batch being built does not move it.
C11_ActiveSinceFirstAdd ==
    [][(GatherStep /\ Len(fifo) > 0 /\ activeSince # 0)
          => activeSince' = activeSince]_vars

\* C12 (as claimed): at every state-step boundary an empty FIFO has a zero
\* active_since.
C12_EmptyMeansZero ==
    (runPc = "select" /\ Len(fifo) = 0) => activeSince = 0

C15_ErrorMeansNothingDeleted ==
    qPc = "done" =>
        /\ qErr => qDeleted = {}
        /\ ~qErr => qResult.Success + qResult.Failure = Len(qRecords)

\* C16 (as claimed): the two lists Intersection returns together equal the
\* input list as multisets, repeated idents included, and share no ident.
C16_IntersectionPartitionsMultiset ==
    vOp = "intersection" =>
        LET Count(a, id) == Cardinality({i \in 1..Len(a) : a[i] = id})
        IN  /\ \A id \in Idents :
                 Count(vUnion, id) + Count(vDifference, id) = Count(vIn, id)
            /\ IdentSet(vUnion) \cap IdentSet(vDifference) = {}

\* C16 (amended): the two lists Intersection returns together hold every
\* distinct ident of the input exactly once and nothing else, and share no
\* ident.
C16_IntersectionPartitionsSet ==
    vOp = "intersection" =>
        LET Count(a, id) == Cardinality({i \in 1..Len(a) : a[i] = id})
        IN  /\ \A id \in Idents :
                 Count(vUnion, id) + Count(vDifference, id)
                    = IF id \in IdentSet(vIn) THEN 1 ELSE 0
            /\ IdentSet(vUnion) \cap IdentSet(vDifference) = {}

\* an Intersection over a list with a repeated ident returned idents in both lists
C16_Witness ==
    /\ vOp = "intersection"
    /\ Len(vIn) > Cardinality(IdentSet(vIn))
    /\ vUnion # <<>> /\ vDifference # <<>>

\* C17 (as claimed): the first list Intersection returns holds exactly the
\* input idents that are in the store, in the relative order of the input.
C17_PresentInInputOrder ==
    vOp = "intersection" =>
        LET FirstPos(id) == CHOOSE i \in 1..Len(vIn) :
                               vIn[i] = id /\ \A j \in 1..(i - 1) : vIn[j] # id
        IN  /\ IdentSet(vUnion) = IdentSet(vIn) \cap IdentSet(vKeys)
            /\ \A i, j \in 1..Len(vUnion) :
                  i < j => FirstPos(vUnion[i]) < FirstPos(vUnion[j])

\* C18: whatever was added, repeated idents included, the store holds at most
\* StoreSize idents.
C18_AtMostCapacity == Len(vKeys) <= StoreSize

\* an Add naming an ident twice left the store full after an eviction
C18_Witness ==
    /\ vOp = "add"
    /\ Len(vIn) > Cardinality(IdentSet(vIn))
    /\ Len(vKeys) = StoreSize
    /\ Len(vInserted) > StoreSize

\* C19: the store evicts the ident inserted earliest among those it holds, so
\* it holds the StoreSize idents inserted last, oldest first (adding an ident
\* the store holds inserts nothing).
C19_KeepsLastInserted ==
    LET n == Len(vInserted)
        kept == IF n > StoreSize THEN StoreSize ELSE n
    IN vKeys = SubSeq(vInserted, n - kept + 1, n)

\* more distinct idents than the store holds were inserted by Add
C19_Witness ==
    /\ vOp = "add"
    /\ Cardinality(IdentSet(vInserted)) > StoreSize
    /\ Len(vKeys) = StoreSize

\* C20 (as claimed): an Append that returned success left exactly one new
\* file with suffix .flushed under root, and while no Append is in progress
\* no file with suffix .active is under root.
C20_OneFlushedNoActive ==
    aPc = "idle" =>
        /\ aResult = "ok" =>
              Cardinality(Names(WithExt(aFiles, Flushed))
                             \ Names(WithExt(aBefore, Flushed))) = 1
        /\ WithExt(aFiles, Active) = {}

\* C21 (as claimed): once the local audit log is started no stale active file
\* is left under root, each was renamed to .failed before an Append is taken.
C21_StaleRenamedOnStart ==
    aPc \in {"idle", "writing"} => aFiles \cap StaleFiles = {}

\* C22: at most one appender holds the lock of the root at any time, and a
\* step that creates or writes a segment file is taken by the holder while no
\* other appender holds the lock.
C22_OneLockHolder ==
    /\ Cardinality(Holders) <= 1
    /\ Holders # {} => lLock = "locked"
    /\ \A f \in WithExt(lFiles, Active) :
          \A p \in Holders : lPc[p] = "created" => (f.by = p \/ f.name # lName[p])

\* an appender was refused the lock while another was writing its file
C22_Witness ==
    \E p, q \in Appenders :
        /\ p # q
        /\ lPc[p] = "created"
        /\ lPc[q] = "idle" /\ lErr[q]
        /\ lFiles # {}

\* C23: when audit.append fails for a batch, the commit sub-step still calls
\* queue.commit with the same transaction, and it returns an error only when
\* queue.commit or the store failed.
C23_AuditFailureSwallowed ==
    lastStep = "replicate" =>
        /\ \A a \in EventsOf("append") :
              ~events[a].ok =>
                  \E c \in EventsOf("commit") : a < c /\ events[c].txn = events[a].txn
        /\ commitErr =>
              \E e \in EventsOf("commit") \cup EventsOf("storeAdd") : ~events[e].ok

\* a commit sub-step whose audit append failed committed two records without error
C23_Witness ==
    /\ lastStep = "replicate"
    /\ ~commitErr
    /\ \E a \in EventsOf("append") : ~events[a].ok /\ Len(events[a].txn) = 2
    /\ \E c \in EventsOf("commit") : events[c].ok

\* C24 (as claimed): within one commit sub-step a failing audit.append is
\* tried again, and append is attempted at most AuditAttempts times.
C24_AppendRetriedBounded ==
    lastStep = "replicate" =>
        /\ Cardinality(EventsOf("append")) <= AuditAttempts
        /\ \A a \in EventsOf("append") :
              (~events[a].ok /\ Cardinality({b \in EventsOf("append") : b <= a}) < AuditAttempts)
                  => \E b \in EventsOf("append") : a < b

\* C25: with a visibility timeout of 0 configured, Dequeue makes no
\* visibility-extension call to the source.
C25_NoExtensionAtZero == dqTimeout = 0 => dqVisCalls = <<>>

\* a Dequeue under timeout 0 returned two records
C25_Witness ==
    /\ dqTimeout = 0
    /\ dqCalls > 0 /\ ~dqErr
    /\ Len(dqRecords) = 2

\* C26: when the visibility-extension call fails, Dequeue still returns every
\* fetched message as a record, in order, and no error.
C26_ExtensionFailureLogged ==
    (dqCalls > 0 /\ dqVisErr) =>
        /\ ~dqErr
        /\ Len(dqRecords) = Len(dqMessages)
        /\ \A k \in 1..Len(dqMessages) : dqRecords[k].mid = dqMessages[k]

\* the extension call of a Dequeue of two messages failed
C26_Witness ==
    /\ dqCalls > 0 /\ dqVisErr
    /\ Len(dqVisCalls) = 1
    /\ Len(dqMessages) = 2

\* C27 (as claimed): Send returns an error exactly when its POST failed at
\* transport level or the response carried a status other than 200.
C27_ErrorIffPostFailed ==
    sCalls =>
        (sErr <=> (sPosted /\ (sTransportErr \/ sStatus # StatusOK)))

\* C27 (amended): Send returns an error exactly when the circuit breaker was
\* open and no POST was made, or the POST failed at transport level, or the
\* response carried a status other than 200.
C27_ErrorIffOpenOrPostFailed ==
    sCalls =>
        (sErr <=> (~sPosted \/ sTransportErr \/ sStatus # StatusOK))

\* a Send met the open circuit and returned an error without a POST
C27_Witness ==
    /\ sCalls /\ ~sPosted /\ sBody = 0
    /\ sCircuit = "open"
    /\ sErr

\* C28 (as claimed): what Slice() and Keys() returned is a copy: no later
\* call on the FIFO changes the returned slice, and a change the caller makes
\* to the returned slice does not change what the FIFO holds.
C28_SnapshotCopies ==
    /\ hSlice # NoSlice => View(hMem, hSlice) = hSliceAt
    /\ hKeys # NoSlice => View(hMem, hKeys) = hKeysAt
    /\ hItems.arr # 0 => View(hMem, hItems) = hContents

\* C29 (as claimed): a GET of the readiness path is answered 200 exactly when
\* every consumer is running, and with a 5xx status otherwise.
C29_ReadyIffAllRunning ==
    rPath = APIPathReadinessQuery =>
        /\ rStatus = StatusOK <=> rAllRunning
        /\ ~rAllRunning => (rStatus >= 500 /\ rStatus <= 599)

\* C30 (as claimed): a consumer that is running and is never stopped calls
\* queue.Dequeue infinitely often: gather reaches its Dequeue call again and
\* again, however often gather and replicate hand over to each other.
C30_DequeuesInfinitelyOften ==
    <>(stopPc # "idle") \/ []<><<GatherDequeues>>_vars

\* C31: a gather step entered with gather_errors > 0 performs no dequeue; with
\* an empty FIFO it resets gather_errors to 0 and stays in Gather, otherwise it
\* moves to Replicate; and a gather step whose dequeue fails increments
\* gather_errors and stays in Gather.
C31_GatherErrorBreakOut ==
    [][GatherStep =>
        /\ gatherErrors > 0 =>
             /\ lastStep' \notin DequeueSteps
             /\ nextId' = nextId /\ delivered' = delivered /\ fifo' = fifo
             /\ IF Len(fifo) = 0
                THEN gatherErrors' = 0 /\ state' = "gather"
                ELSE state' = "replicate"
        /\ lastStep' = "gather_error" =>
             gatherErrors' = gatherErrors + 1 /\ state' = "gather"]_vars

\* a gather step found gather_errors > 0 with entries in the FIFO and moved on
C31_Witness ==
    lastStep = "gather_flush" /\ gatherErrors > 0 /\ Len(fifo) > 0 /\ state = "replicate"

\* a step of Run that calls failure
FailureStep == runPc = "step" /\ state = "failure" /\ runPc' = "select"

\* C32: a failure step always leaves the FIFO empty and the consumer in Gather,
\* whether or not queue.Failed returned an error; failed-segments goes up by one
\* and failed-records by the length of the transaction exactly when queue.Failed
\* succeeded, and neither moves when it failed.
C32_FailureAlwaysPurges ==
    [][FailureStep =>
        /\ fifo' = <<>> /\ state' = "gather"
        /\ failedTxn' = fifo
        /\ lastStep' \in {"failure", "failure_error"}
        /\ IF lastStep' = "failure"
           THEN /\ failedSegments' = failedSegments + 1
                /\ failedRecords' = failedRecords + Len(fifo)
           ELSE /\ failedSegments' = failedSegments
                /\ failedRecords' = failedRecords]_vars

\* a failure step whose queue.Failed returned an error purged a FIFO that held
\* entries
C32_Witness ==
    /\ lastStep = "failure_error" /\ failedTxn # <<>>
    /\ fifo = <<>> /\ state = "gather"

\* C33: the ids held by the FIFO are pairwise distinct at every step boundary,
\* also when the source has returned the same message again before its first
\* delivery was committed: no gather step adds an id the FIFO already holds.
C33_FifoIdsDistinct ==
    Cardinality(Ids(fifo)) = Len(fifo)

\* the FIFO holds two deliveries of one source message, neither committed
C33_Witness ==
    \E i, k \in 1..Len(fifo) :
        /\ i < k /\ fifo[i].mid = fifo[k].mid
        /\ commitCount[fifo[i].id] = 0 /\ commitCount[fifo[k].id] = 0
        /\ lastStep = "gather_add"

\* C34: the commit of a replicate step has returned before Run begins the next
\* state step or the stop-purge: a commit is running only while replicate waits
\* for it, at most one is running, and none is running when Run leaves its
\* select for a state function or for the stop case.
C34_CommitInsideStep ==
    /\ zCommitting > 0 => (zPc = "commit" /\ zCommitting = 1)
    /\ zPc \in {"select", "gather", "replicate", "failure", "exited"} => zCommitting = 0

\* a state step or the stop-purge has begun after a replicate step that
\* committed entries
C34_Witness ==
    /\ zPc \in {"gather", "failure", "exited"}
    /\ zDrained > 0 /\ zCommitting = 0

\* the reason the callback is to carry for each operation
ReasonOf == [pop |-> Popped, remove |-> Removed, dequeue |-> Dequeued, purge |-> Purged]

\* C35: after every FIFO operation, each entry that left the FIFO was reported
\* to the eviction callback exactly once, with the reason of the operation, and
\* no entry that is still in the FIFO was reported, the entry a drain failed on
\* included.
C35_EvictedExactlyOnce ==
    LET left == {eBefore[k] : k \in 1..Len(eBefore)} \ {eItems[k] : k \in 1..Len(eItems)}
        reported(kv) == Cardinality({k \in 1..Len(eEvicts) : eEvicts[k].kv = kv})
    IN ePc = "on" =>
        /\ \A kv \in left : reported(kv) = 1
        /\ \A k \in 1..Len(eItems) : reported(eItems[k]) = 0
        /\ \A k \in 1..Len(eEvicts) :
             /\ eEvicts[k].kv \in left
             /\ eOp \in DOMAIN ReasonOf /\ eEvicts[k].reason = ReasonOf[eOp]

\* a drain reported the entries it sent and stopped at one fn failed on
C35_Witness ==
    /\ eOp = "dequeue" /\ eErr
    /\ Len(eEvicts) > 0 /\ Len(eItems) > 0
    /\ Len(eBefore) = Len(eEvicts) + Len(eItems)

\* C36: once Stop has been called on a running consumer whose state steps
\* return, Stop eventually returns and Run has exited, whether the offer on
\* the stop channel arrives while Run waits in its select or while a state
\* function is running.
C36_StopReturns ==
    (zStop = "sending") ~> (zStop = "returned" /\ zPc = "exited")

\* Stop has returned from a consumer whose last drain sent entries and then
\* stopped at an error
C36_Witness ==
    /\ zStop = "returned" /\ zPc = "exited"
    /\ zDrained > 0 /\ zErr /\ zActive

\* C37: when store.Intersection returns an error to gather, every record of
\* the dequeue is added to the FIFO, in order, those the store holds included:
\* the filter fails open.
C37_FilterFailsOpen ==
    xErr => xFifo = xBefore \o xRecords

\* the store failed on a dequeue that carried a record whose id it holds
C37_Witness ==
    /\ xErr
    /\ \E k \in 1..Len(xRecords) : StoreContains(xStore, xRecords[k].id)
    /\ xFifo = xBefore \o xRecords

\* C38 (as claimed): an Intersection of the remote store that returns no error
\* returns as union the requested idents held by the local store or by a peer
\* that answered, and as difference the requested idents held by none of them;
\* the two share no ident and together are the distinct requested idents.
C38_RemoteIntersectionPartitions ==
    (mCalls /\ ~mErr) =>
        LET found == mLocal \cup UNION {mPeers[p] : p \in mResponded}
        IN /\ mUnion = IdentSet(mIn) \cap found
           /\ mDifference = IdentSet(mIn) \ found
           /\ mUnion \cap mDifference = {}
           /\ mUnion \cup mDifference = IdentSet(mIn)

\* C39 (as claimed): for every segment of an intersection whose query names
\* record ids of it, the union is the segment's records the query names and
\* the difference the segment's records it does not name, both in the
\* segment's order; the two share no record and together hold each record of
\* the segment exactly once.
C39_StreamIntersectionPartitions ==
    (tCalls /\ ~tAll) =>
        \A s \in 1..Len(tSegments) :
            tQuery[s].ok =>
                /\ tUnion[s] = SelectSeq(tSegments[s], LAMBDA r : r \in tQuery[s].ids)
                /\ tDifference[s] = SelectSeq(tSegments[s], LAMBDA r : r \notin tQuery[s].ids)
                /\ IdentSet(tUnion[s]) \cap IdentSet(tDifference[s]) = {}
                /\ Len(tUnion[s]) + Len(tDifference[s]) = Len(tSegments[s])

====
